---- MODULE Spec2Model ----
(***************************************************************************)
(* Verification model of the daily-research pipeline:                      *)
(*   - title_is_seen / vault dedup        (lib/vault_v2.py, lib/vault.py)  *)
(*   - _fix_urls_from_citations           (vendor/last30days/xai_x.py)     *)
(*   - apply_quality_filters              (run.py)                         *)
(*   - the sequential topic loop of main  (run.py)                         *)
(* Python str values are TLA+ strings; a character of s is SubSeq(s,i,i).  *)
(***************************************************************************)
EXTENDS Integers, Sequences, FiniteSets, TLC

VARIABLES
    pc,            \* position of the modelled call sequence
    title,         \* title_is_seen: argument title
    seen_titles,   \* title_is_seen / main: the seen-title set
    seen_result,   \* title_is_seen: returned value ("none" before the call)
    items,         \* _fix_urls_from_citations: the parsed model items
    citation_urls, \* _fix_urls_from_citations: the real citation URLs
    fixed,         \* _fix_urls_from_citations: the returned items
    config,        \* the pipeline config dict
    result,        \* the topic scan result dict being filtered
    prev_result,   \* result as it was before the latest apply_quality_filters
    qf_calls,      \* number of apply_quality_filters calls made on result
    vault,         \* the notes of the Obsidian vault, [path, content]
    run_no,        \* number of pipeline runs started
    today,         \* main: the date of the current run
    seen_urls,     \* main: the seen-URL set, grown by the topic loop
    seen_urls0,    \* seen_urls as load_seen_urls returned it for this run
    all_topics,    \* main: the topics to scan
    topic_results, \* main: the results of the topics scanned so far
    total_errors,  \* main: the errors collected so far
    scan_input,    \* what the providers returned to the latest topic scan
    written_urls,  \* URLs of the items earlier runs wrote into daily notes
    folder_cache,  \* vault_v2._folder_cache: folder -> listed files
    list_calls,    \* folder -> number of ob.files calls made for it
    listing,       \* the latest list_md_files call: [folder, files]
    manifest,      \* podcast Manifest._data of the running process:
                   \* episode id -> [status, note_path]
    manifest_disk, \* the episodes of podcast-manifest.json
    pod_args,      \* the podcast run: [run, feed, max_episodes, dry_run]
    new_eps,       \* the episodes step_detect_episodes selected
    notes,         \* the episodes whose notes are still to be written
    last_write,    \* the latest vault write: [ep, outcome]
    write_count,   \* episode id -> number of vault writes that returned ok
    daily,         \* the content of the daily note promote_items scans
    library,       \* topic slug -> the entries appended to its library file
    promoted,      \* the items the latest promote_items call returned
    promo          \* the promote_items calls: [run, dry_run]

vars == <<pc, title, seen_titles, seen_result, items, citation_urls, fixed,
          config, result, prev_result, qf_calls, vault, run_no, today,
          seen_urls, seen_urls0, all_topics, topic_results, total_errors,
          scan_input, written_urls, folder_cache, list_calls, listing,
          manifest, manifest_disk, pod_args, new_eps, notes, last_write,
          write_count, daily, library, promoted, promo>>

titleVars == <<title, seen_titles, seen_result>>
citeVars == <<items, citation_urls, fixed>>
qfVars == <<config, result, prev_result, qf_calls>>
runVars == <<vault, run_no, today, seen_urls, seen_urls0, all_topics,
             topic_results, total_errors, scan_input, written_urls>>
cacheVars == <<folder_cache, list_calls, listing>>
podVars == <<manifest, manifest_disk, pod_args, new_eps, notes, last_write,
             write_count>>
promoVars == <<daily, library, promoted, promo>>
auxVars == <<cacheVars, podVars, promoVars>>

-----------------------------------------------------------------------------
(* Python string primitives                                                *)

Char(s, i) == SubSeq(s, i, i)

UpperChars == "ABCDEFGHIJKLMNOPQRSTUVWXYZ"
LowerChars == "abcdefghijklmnopqrstuvwxyz"

UpperSet == {Char(UpperChars, k) : k \in 1..Len(UpperChars)}

\* str.lower() on one character
LowerChar(c) ==
    IF c \in UpperSet
    THEN Char(LowerChars, CHOOSE k \in 1..Len(UpperChars) : Char(UpperChars, k) = c)
    ELSE c

\* str.lower(): every character lower-cased, by halves
RECURSIVE Lower(_)
Lower(s) ==
    IF Len(s) = 0 THEN ""
    ELSE IF Len(s) = 1 THEN LowerChar(s)
    ELSE LET h == Len(s) \div 2
         IN  Lower(SubSeq(s, 1, h)) \o Lower(SubSeq(s, h + 1, Len(s)))

WhitespaceOrHyphen == {" ", "\t", "\n", "-"}
\* the separators of str.split() without arguments
Whitespace == {" ", "\t", "\n"}

\* str.split() without arguments: the maximal runs of non-whitespace
\* characters, in order of their first character
Split(s) ==
    LET IsWs(i) == Char(s, i) \in Whitespace
        Starts == {i \in 1..Len(s) : ~IsWs(i) /\ (i = 1 \/ IsWs(i - 1))}
        Ends   == {j \in 1..Len(s) : ~IsWs(j) /\ (j = Len(s) \/ IsWs(j + 1))}
        Nth(S, k) == CHOOSE i \in S : Cardinality({m \in S : m < i}) = k - 1
    IN  [k \in 1..Cardinality(Starts) |-> SubSeq(s, Nth(Starts, k), Nth(Ends, k))]

\* set(s.split())
WordSet(s) == {Split(s)[k] : k \in 1..Len(Split(s))}

Max(a, b) == IF a >= b THEN a ELSE b
Min(a, b) == IF a <= b THEN a ELSE b

-----------------------------------------------------------------------------
(* title_is_seen                                                           *)

\* threshold: float = 0.8, kept as the exact ratio 4/5.  For word counts of
\* this size the float quotient k/n compares to the literal 0.8 exactly as
\* the rational does (4/5 rounds to the same double as 0.8).
THRESHOLD_NUM == 4
THRESHOLD_DEN == 5
\* if len(title_words) < 3: exact membership
MIN_FUZZY_WORDS == 3

\* the overlap test with an exclusive threshold
title_is_seen_strict(t, seen) ==
    IF t = "" \/ seen = {} THEN FALSE
    ELSE LET title_words == WordSet(Lower(t))
         IN  IF Cardinality(title_words) < MIN_FUZZY_WORDS
             THEN Lower(t) \in seen
             ELSE \E s \in seen :
                    LET seen_words == WordSet(s)
                    IN  /\ seen_words # {}
                        /\ Cardinality(title_words \cap seen_words) * THRESHOLD_DEN
                             > THRESHOLD_NUM * Max(Cardinality(title_words),
                                                    Cardinality(seen_words))

title_is_seen(t, seen) ==
    IF t = "" \/ seen = {} THEN FALSE
    ELSE LET title_words == WordSet(Lower(t))
         IN  IF Cardinality(title_words) < MIN_FUZZY_WORDS
             THEN Lower(t) \in seen
             ELSE \E s \in seen :
                    LET seen_words == WordSet(s)
                    IN  /\ seen_words # {}
                        /\ Cardinality(title_words \cap seen_words) * THRESHOLD_DEN
                             >= THRESHOLD_NUM * Max(Cardinality(title_words),
                                                    Cardinality(seen_words))

-----------------------------------------------------------------------------
(* _fix_urls_from_citations                                                *)

Digits == "0123456789"
\* the characters \w matches (ASCII)
WordChars ==
    {Char(LowerChars, k) : k \in 1..Len(LowerChars)}
    \cup {Char(UpperChars, k) : k \in 1..Len(UpperChars)}
    \cup {Char(Digits, k) : k \in 1..Len(Digits)} \cup {"_"}
DigitChars == {Char(Digits, k) : k \in 1..Len(Digits)}

\* s.startswith(p)
StartsWith(s, p) == Len(s) >= Len(p) /\ SubSeq(s, 1, Len(p)) = p

\* sub in s
Contains(s, sub) ==
    \E i \in 1..(Len(s) - Len(sub) + 1) : SubSeq(s, i, i + Len(sub) - 1) = sub

X_PREFIX == "https://x.com/"

\* re.match(r'https://x\.com/(\w+)/status/\d+', url): group(1), or "" when
\* there is no match.  \w+ is the maximal run of word characters after the
\* prefix (the next pattern character "/" is not a word character).
XHandle(url) ==
    IF ~StartsWith(url, X_PREFIX) THEN ""
    ELSE LET first == Len(X_PREFIX) + 1
             End[i \in first..(Len(url) + 1)] ==
                 IF i <= Len(url) /\ Char(url, i) \in WordChars
                 THEN End[i + 1] ELSE i - 1
             last == IF first > Len(url) THEN first - 1 ELSE End[first]
         IN  IF /\ last >= first
                /\ Len(url) >= last + 9
                /\ SubSeq(url, last + 1, last + 8) = "/status/"
                /\ Char(url, last + 9) \in DigitChars
             THEN SubSeq(url, first, last)
             ELSE ""

\* s.lstrip("@")
LStripAt(s) ==
    LET F[i \in 1..(Len(s) + 1)] ==
            IF i <= Len(s) /\ Char(s, i) = "@" THEN F[i + 1] ELSE i
    IN  SubSeq(s, F[1], Len(s))

\* [x for x in seq if P]: the elements of seq at the indexes in S, in order
SelectIdx(seq, S) ==
    LET F[i \in 0..Len(seq)] ==
            IF i = 0 THEN << >>
            ELSE IF i \in S THEN Append(F[i - 1], seq[i]) ELSE F[i - 1]
    IN  F[Len(seq)]

Range(seq) == {seq[k] : k \in 1..Len(seq)}

\* the handle a citation is queued under ("" when it is queued nowhere)
CitationHandle(url) ==
    LET h == Lower(XHandle(url)) IN IF h = "i" THEN "" ELSE h

\* author_urls: handle -> citation URLs of that handle, citation order kept
BuildAuthorUrls(cites) ==
    LET handles == {CitationHandle(cites[k]) : k \in 1..Len(cites)} \ {""}
    IN  [h \in handles |->
            SelectIdx(cites,
                      {k \in 1..Len(cites) : CitationHandle(cites[k]) = h})]

\* anon_urls = [u for u in citation_urls if "/i/status/" in u]
AnonUrls(cites) ==
    SelectIdx(cites,
              {k \in 1..Len(cites) : Contains(cites[k], "/i/status/")})

\* list.remove(x): drops the first occurrence
RemoveFirst(seq, x) ==
    LET k == CHOOSE j \in 1..Len(seq) :
                 seq[j] = x /\ \A m \in 1..(j - 1) : seq[m] # x
    IN  SubSeq(seq, 1, k - 1) \o SubSeq(seq, k + 1, Len(seq))

\* Case 1: model URL is a verified citation - keep and remove from pool
FixCase1(st, item, author) ==
    IF /\ author # ""
       /\ author \in DOMAIN st.author_urls
       /\ item.url \in Range(st.author_urls[author])
    THEN [st EXCEPT !.author_urls[author] = RemoveFirst(@, item.url),
                    !.out = Append(@, item)]
    ELSE [st EXCEPT !.out = Append(@, item)]

\* Case 3 that drops the item it cannot verify
FixCase3DropUnverified(st, item, author, anon_urls) ==
    IF author # "" /\ author \in DOMAIN st.author_urls /\ st.author_urls[author] # << >>
    THEN [st EXCEPT !.author_urls[author] = Tail(@),
                    !.out = Append(@, [item EXCEPT !.url = Head(st.author_urls[author])])]
    ELSE IF anon_urls # << >> /\ st.anon_idx < Len(anon_urls)
    THEN [st EXCEPT !.anon_idx = @ + 1,
                    !.out = Append(@, [item EXCEPT !.url = anon_urls[st.anon_idx + 1]])]
    ELSE st

\* Case 3: replace with the author's oldest unused citation, else with the
\* next handle-less citation, else leave the URL as claimed
FixCase3(st, item, author, anon_urls) ==
    IF author # "" /\ author \in DOMAIN st.author_urls /\ st.author_urls[author] # << >>
    THEN [st EXCEPT !.author_urls[author] = Tail(@),
                    !.out = Append(@, [item EXCEPT !.url = Head(st.author_urls[author])])]
    ELSE IF anon_urls # << >> /\ st.anon_idx < Len(anon_urls)
    THEN [st EXCEPT !.anon_idx = @ + 1,
                    !.out = Append(@, [item EXCEPT !.url = anon_urls[st.anon_idx + 1]])]
    ELSE [st EXCEPT !.out = Append(@, item)]

\* one iteration that skips the exact-citation check
FixItemNoCase1(st, item, citation_set, anon_urls) ==
    LET author == LStripAt(Lower(item.author_handle))
    IN  IF XHandle(item.url) # "" /\ Lower(XHandle(item.url)) = author /\ author # ""
        THEN [st EXCEPT !.out = Append(@, item)]
        ELSE FixCase3(st, item, author, anon_urls)

\* one iteration that skips the handle-match check
FixItemNoCase2(st, item, citation_set, anon_urls) ==
    LET author == LStripAt(Lower(item.author_handle))
    IN  IF item.url \in citation_set
        THEN FixCase1(st, item, author)
        ELSE FixCase3(st, item, author, anon_urls)

\* one iteration of "for item in items"
FixItem(st, item, citation_set, anon_urls) ==
    LET author == LStripAt(Lower(item.author_handle))
    IN  IF item.url \in citation_set
        THEN FixCase1(st, item, author)
        ELSE IF XHandle(item.url) # "" /\ Lower(XHandle(item.url)) = author /\ author # ""
        THEN [st EXCEPT !.out = Append(@, item)]
        ELSE FixCase3(st, item, author, anon_urls)

\* the loop's state before the first item (index 0) and after each item:
\* the per-author queues, the fallback index and the items handled so far
FixTrace(its, cites) ==
    LET citation_set == Range(cites)
        anon_urls == AnonUrls(cites)
        F[i \in 0..Len(its)] ==
            IF i = 0
            THEN [author_urls |-> BuildAuthorUrls(cites),
                  anon_idx |-> 0, out |-> << >>]
            ELSE FixItem(F[i - 1], its[i], citation_set, anon_urls)
    IN  F

_fix_urls_from_citations(its, cites) ==
    IF cites = << >> THEN its
    ELSE FixTrace(its, cites)[Len(its)].out

-----------------------------------------------------------------------------
(* Quality filters: _is_spam, _classify_content, apply_quality_filters     *)

\* An optional value (None or v) is << >> or <<v>>.
None == << >>
Some(v) == <<v>>

SCORE_CAP == 100
\* is_long_title = len(item.title) > 100
LONG_TITLE_CHARS == 100

\* re.search(pattern, text, re.IGNORECASE) for a pattern that is a literal
\* phrase (no metacharacters): a case-insensitive substring search
RegexSearch(pattern, text) == Contains(Lower(text), Lower(pattern))

\* any(domain in url for domain in domains), domains lower-cased first
AnyDomainIn(domains, url) ==
    \E k \in 1..Len(domains) : Contains(url, Lower(domains[k]))

\* spam detection that knows the low-effort patterns only
_is_spam_bait_only(item, cfg, source) ==
    IF cfg.quality_filters = None THEN FALSE
    ELSE LET spam_cfg == cfg.quality_filters[1].spam_detection
             text == Lower(IF source = "x" THEN item.text ELSE item.title)
         IN  IF ~spam_cfg.enabled THEN FALSE
             ELSE \E k \in 1..Len(spam_cfg.low_effort_patterns) :
                     RegexSearch(spam_cfg.low_effort_patterns[k], text)

_is_spam(item, cfg, source) ==
    IF cfg.quality_filters = None THEN FALSE
    ELSE LET spam_cfg == cfg.quality_filters[1].spam_detection
             text == Lower(IF source = "x" THEN item.text ELSE item.title)
             url  == Lower(item.url)
         IN  IF ~spam_cfg.enabled THEN FALSE
             ELSE \/ \E k \in 1..Len(spam_cfg.claim_link_mismatch_patterns) :
                       LET pattern == spam_cfg.claim_link_mismatch_patterns[k]
                       IN  /\ pattern.claim_regex # ""
                           /\ RegexSearch(pattern.claim_regex, text)
                           /\ pattern.link_must_contain # << >>
                           /\ ~AnyDomainIn(pattern.link_must_contain, url)
                  \/ \E k \in 1..Len(spam_cfg.low_effort_patterns) :
                       RegexSearch(spam_cfg.low_effort_patterns[k], text)

\* lab_handles: the lower-cased handles of every lab account list
LabHandles(qf) ==
    UNION {{Lower(qf.lab_accounts[k][j]) : j \in 1..Len(qf.lab_accounts[k])} :
              k \in DOMAIN qf.lab_accounts}

LowerSet(seq) == {Lower(seq[k]) : k \in 1..Len(seq)}

\* a classification that tests the long-form criteria before the lab list
_classify_content_long_first(item, cfg, source) ==
    LET qf == cfg.quality_filters[1]
    IN  IF source = "x" /\ Len(item.text) >= qf.long_form_min_chars
        THEN "deep-dive"
        ELSE IF source = "x" /\ Lower(item.author_handle) \in LabHandles(qf)
        THEN "lab-pulse"
        ELSE IF source = "reddit" /\ AnyDomainIn(qf.article_domains, Lower(item.url))
        THEN "deep-dive"
        ELSE IF source = "reddit" /\ Len(item.title) > LONG_TITLE_CHARS
        THEN "deep-dive"
        ELSE "general"

_classify_content(item, cfg, source) ==
    LET qf == cfg.quality_filters[1]
    IN  IF source = "x" /\ Lower(item.author_handle) \in LabHandles(qf)
        THEN "lab-pulse"
        ELSE IF source = "x" /\ Len(item.text) >= qf.long_form_min_chars
        THEN "deep-dive"
        ELSE IF source = "reddit" /\ AnyDomainIn(qf.article_domains, Lower(item.url))
        THEN "deep-dive"
        ELSE IF source = "reddit" /\ Len(item.title) > LONG_TITLE_CHARS
        THEN "deep-dive"
        ELSE "general"

MapSeq(seq, Op(_)) == [k \in 1..Len(seq) |-> Op(seq[k])]

\* a bonus added without the cap
BoostNoCap(score, bonus) == score + bonus

\* a bonus that replaces the score instead of being added to it
BoostReplace(score, bonus) == Min(SCORE_CAP, bonus)

\* item.score = min(100, item.score + bonus)
Boost(score, bonus) == Min(SCORE_CAP, score + bonus)

\* a long-form test that holds for every X item
IsLongFormXAlways(item, qf) == TRUE

\* pass 2, X: len(item.text) >= long_form_min_chars
IsLongFormX(item, qf) == Len(item.text) >= qf.long_form_min_chars

\* pass 2, Reddit: is_article or is_long_title
IsLongFormReddit(item, qf) ==
    \/ AnyDomainIn(qf.article_domains, Lower(item.url))
    \/ Len(item.title) > LONG_TITLE_CHARS

\* pass 1, Reddit: the items the engagement floor keeps
KeepsRedditFloor(item, qf) ==
    \/ item.engagement = None
    \/ item.engagement[1].score = None
    \/ item.engagement[1].score[1] >= qf.min_engagement.reddit_score

\* an X floor without the bypass of lab and priority accounts
KeepsXFloorNoBypass(item, qf) ==
    \/ item.engagement = None
    \/ item.engagement[1].likes = None
    \/ item.engagement[1].likes[1] >= qf.min_engagement.x_likes

\* pass 1, X: lab and priority accounts bypass the floor
KeepsXFloor(item, qf) ==
    \/ Lower(item.author_handle) \in LabHandles(qf)
    \/ Lower(item.author_handle) \in LowerSet(qf.priority_accounts.x)
    \/ item.engagement = None
    \/ item.engagement[1].likes = None
    \/ item.engagement[1].likes[1] >= qf.min_engagement.x_likes

\* pass 0: spam detection
SpamPass(res, cfg) ==
    LET NotSpamX(item) == ~_is_spam(item, cfg, "x")
        NotSpamR(item) == ~_is_spam(item, cfg, "reddit")
    IN  [res EXCEPT !.x_items = SelectSeq(@, NotSpamX),
                    !.reddit_items = SelectSeq(@, NotSpamR)]

\* pass 1: engagement floor, each list filtered only when its floor is > 0
FloorPass(res, qf) ==
    LET FloorR(item) == KeepsRedditFloor(item, qf)
        FloorX(item) == KeepsXFloor(item, qf)
    IN  [res EXCEPT
            !.reddit_items = IF qf.min_engagement.reddit_score > 0
                             THEN SelectSeq(@, FloorR) ELSE @,
            !.x_items = IF qf.min_engagement.x_likes > 0
                        THEN SelectSeq(@, FloorX) ELSE @]

\* pass 2: long-form content bonus
LongFormPass(res, qf) ==
    LET LongX(item) == IF IsLongFormX(item, qf)
                       THEN [item EXCEPT !.score = Boost(@, qf.long_form_bonus)]
                       ELSE item
        LongR(item) == IF IsLongFormReddit(item, qf)
                       THEN [item EXCEPT !.score = Boost(@, qf.long_form_bonus)]
                       ELSE item
    IN  IF qf.long_form_bonus > 0
        THEN [res EXCEPT !.x_items = MapSeq(@, LongX),
                         !.reddit_items = MapSeq(@, LongR)]
        ELSE res

\* pass 3: priority account boost
PriorityPass(res, qf) ==
    LET PrioX(item) ==
            IF Lower(item.author_handle) \in LowerSet(qf.priority_accounts.x)
            THEN [item EXCEPT !.score = Boost(@, qf.priority_account_bonus)]
            ELSE item
        PrioR(item) ==
            IF Lower(item.subreddit) \in LowerSet(qf.priority_accounts.reddit_subreddits)
            THEN [item EXCEPT !.score = Boost(@, qf.priority_account_bonus)]
            ELSE item
    IN  IF qf.priority_account_bonus > 0
        THEN [res EXCEPT !.x_items = MapSeq(@, PrioX),
                         !.reddit_items = MapSeq(@, PrioR)]
        ELSE res

\* pass 4: classify content
ClassifyPass(res, cfg) ==
    LET ClassX(item) == [item EXCEPT !.category = _classify_content(item, cfg, "x")]
        ClassR(item) == [item EXCEPT !.category = _classify_content(item, cfg, "reddit")]
    IN  [res EXCEPT !.x_items = MapSeq(@, ClassX),
                    !.reddit_items = MapSeq(@, ClassR)]

apply_quality_filters(res, cfg) ==
    IF cfg.quality_filters = None THEN res
    ELSE LET qf == cfg.quality_filters[1]
         IN  ClassifyPass(
                 PriorityPass(LongFormPass(FloorPass(SpamPass(res, cfg), qf), qf), qf),
                 cfg)

-----------------------------------------------------------------------------
(* Corpus index: extract_urls_from_text, extract_titles_from_text          *)

\* extract_titles_from_text: if len(title) > 10
MIN_TITLE_LEN == 10

SetMin(S) == CHOOSE x \in S : \A y \in S : x <= y
SetMax(S) == CHOOSE x \in S : \A y \in S : x >= y

\* the characters \s matches
ReSpace == {" ", "\t", "\n", "\r"}

\* str.strip()
Strip(s) ==
    LET Solid == {i \in 1..Len(s) : Char(s, i) \notin ReSpace}
    IN  IF Solid = {} THEN "" ELSE SubSeq(s, SetMin(Solid), SetMax(Solid))

\* str.rstrip(chars)
RStrip(s, chars) ==
    LET Solid == {i \in 1..Len(s) : Char(s, i) \notin chars}
    IN  IF Solid = {} THEN "" ELSE SubSeq(s, 1, SetMax(Solid))

\* text[i:].startswith(p)
StartsAt(text, i, p) ==
    i + Len(p) - 1 <= Len(text) /\ SubSeq(text, i, i + Len(p) - 1) = p

\* the last index of the maximal run of characters outside stop that
\* starts at i (i - 1 when the run is empty), searched 32 characters at a
\* time
RECURSIVE RunEnd(_, _, _)
RunEnd(text, i, stop) ==
    LET hi == Min(Len(text), i + 31)
        Breaks == {j \in i..hi : Char(text, j) \in stop}
    IN  IF Breaks # {} THEN SetMin(Breaks) - 1
        ELSE IF hi >= Len(text) THEN Len(text)
        ELSE RunEnd(text, hi + 1, stop)

\* the last index of the maximal run of characters inside keep that starts
\* at i (i - 1 when the run is empty)
RECURSIVE RunEndIn(_, _, _)
RunEndIn(text, i, keep) ==
    LET hi == Min(Len(text), i + 31)
        Breaks == {j \in i..hi : Char(text, j) \notin keep}
    IN  IF Breaks # {} THEN SetMin(Breaks) - 1
        ELSE IF hi >= Len(text) THEN Len(text)
        ELSE RunEndIn(text, hi + 1, keep)

\* [^\s\)\]>\"\']
UrlStop == ReSpace \cup {")", "]", ">", "\"", "'"}
\* .rstrip(".,;:!?")
UrlTrailing == {".", ",", ";", ":", "!", "?"}

\* the end of the match of r'https?://[^\s\)\]>\"\']+' at i, 0 if none
UrlMatchEnd(text, i) ==
    LET body == IF StartsAt(text, i, "https://") THEN i + 8
                ELSE IF StartsAt(text, i, "http://") THEN i + 7 ELSE 0
        e == IF body = 0 THEN 0 ELSE RunEnd(text, body, UrlStop)
    IN  IF body # 0 /\ e >= body THEN e ELSE 0

\* re.finditer: of the positions M where the pattern matches, those from
\* p on are taken leftmost first, the search resuming after each match
\* (end[i] is the last index of the match at i)
RECURSIVE FindIter(_, _)
FindIter(end, p) ==
    LET rest == {i \in DOMAIN end : i >= p}
    IN  IF rest = {} THEN {}
        ELSE LET i == SetMin(rest) IN {i} \cup FindIter(end, end[i] + 1)

extract_urls_from_text(text) ==
    LET M == {i \in 1..Len(text) : Char(text, i) = "h" /\ UrlMatchEnd(text, i) # 0}
        end == [i \in M |-> UrlMatchEnd(text, i)]
    IN  {RStrip(SubSeq(text, i, end[i]), UrlTrailing) : i \in FindIter(end, 1)}

\* the last index of the maximal run of \s characters that starts at i
SpaceRunEnd(text, i) == RunEndIn(text, i, ReSpace)

\* "[" group "](" at j: <<start, end>> of the group [^\]]+, << >> if none
LinkGroup(text, j) ==
    IF j <= Len(text) /\ Char(text, j) = "["
    THEN LET e == RunEnd(text, j + 1, {"]"})
         IN  IF e >= j + 1 /\ StartsAt(text, e + 1, "](")
             THEN <<j + 1, e>> ELSE << >>
    ELSE << >>

\* the match of r'[-*]\s*(?:\[[ x]\]\s*)?\[([^\]]+)\]\(' at i: the span of
\* group 1, << >> if none.  \s* takes the whole whitespace run (the next
\* pattern character is "["); the checkbox is tried first, then skipped.
LinkMatch(text, i) ==
    IF i > Len(text) \/ Char(text, i) \notin {"-", "*"} THEN << >>
    ELSE LET j == SpaceRunEnd(text, i + 1) + 1
             box == /\ j + 2 <= Len(text)
                    /\ Char(text, j) = "["
                    /\ Char(text, j + 1) \in {" ", "x"}
                    /\ Char(text, j + 2) = "]"
             withBox == IF box THEN LinkGroup(text, SpaceRunEnd(text, j + 3) + 1)
                        ELSE << >>
         IN  IF withBox # << >> THEN withBox ELSE LinkGroup(text, j)

\* group 1 of every match of the list-item link pattern (a match ends
\* with the "](" after its group)
LinkTitles(text) ==
    LET M == {i \in 1..Len(text) : LinkMatch(text, i) # << >>}
        group == [i \in M |-> LinkMatch(text, i)]
        end == [i \in M |-> group[i][2] + 2]
    IN  {SubSeq(text, group[i][1], group[i][2]) : i \in FindIter(end, 1)}

\* the match of r'^#{2,4}\s+(.+)$' (re.MULTILINE) at i: the span of group 1,
\* << >> if none.  The run of "#" must be 2 to 4 long (the character after
\* it must be whitespace); \s+ may run over line ends; .+ goes to the end
\* of its line.  Giving whitespace back from \s+ to .+ only ever yields an
\* all-whitespace title, which the length test drops.
HeadingMatch(text, i) ==
    IF ~(i <= Len(text) /\ (i = 1 \/ Char(text, i - 1) = "\n")) THEN << >>
    ELSE LET h == RunEndIn(text, i, {"#"}) + 1
             w == SpaceRunEnd(text, h) + 1
             e == RunEnd(text, w, {"\n"})
         IN  IF h - i >= 2 /\ h - i <= 4 /\ w > h /\ e >= w
             THEN <<w, e>> ELSE << >>

\* group 1 of every match of the heading pattern
HeadingTitles(text) ==
    LET M == {i \in 1..Len(text) : HeadingMatch(text, i) # << >>}
        group == [i \in M |-> HeadingMatch(text, i)]
        end == [i \in M |-> group[i][2]]
    IN  {SubSeq(text, group[i][1], group[i][2]) : i \in FindIter(end, 1)}

\* title = match.group(1).strip().lower(); if len(title) > 10
KeptTitles(raw) == {t \in {Lower(Strip(r)) : r \in raw} : Len(t) > MIN_TITLE_LEN}

extract_titles_from_text(text) ==
    KeptTitles(LinkTitles(text)) \cup KeptTitles(HeadingTitles(text))

-----------------------------------------------------------------------------
(* parse_x_response and the scan of one topic                              *)

\* text[:n]
Truncate(s, n) == SubSeq(s, 1, Min(Len(s), n))

\* _extract_citation_urls: the citations containing "/status/",
\* deduplicated, order preserved
_extract_citation_urls(citations) ==
    SelectIdx(citations,
              {k \in 1..Len(citations) :
                  /\ Contains(citations[k], "/status/")
                  /\ \A j \in 1..(k - 1) : citations[j] # citations[k]})

\* "likes": int(eng_raw.get("likes", 0)) if eng_raw.get("likes") else None
CleanCount(raw) == IF raw = None \/ raw[1] = 0 THEN None ELSE raw

\* the clean_item built for the raw item at index i (id "X{i+1}" kept as
\* the number i+1); relevance is a percentage here: min(1.0, max(0.0, r))
CleanItem(raw, i) ==
    [id |-> i,
     text |-> Truncate(Strip(raw.text), 500),
     url |-> raw.url,
     author_handle |-> LStripAt(Strip(raw.author_handle)),
     engagement |-> IF raw.engagement = None THEN None
                    ELSE Some([likes |-> CleanCount(raw.engagement[1].likes)]),
     why_relevant |-> Strip(raw.why_relevant),
     relevance |-> Min(100, Max(0, raw.relevance))]

\* the loop body reaches the conversions of the raw item: it is a dict
\* and has a URL
ReachesConversion(raw) == raw.form # "not_dict" /\ raw.url # ""

\* int(eng_raw.get("likes", 0)) or float(item.get("relevance", 0.5))
\* raises ValueError on the raw item
ConversionRaises(raw) ==
    ReachesConversion(raw) /\ raw.form \in {"bad_likes", "bad_relevance"}

\* parse_x_response raises: the item loop has no try, so the first item
\* whose conversion raises ends the call
ParseRaises(response) ==
    /\ ~response.error
    /\ \E k \in 1..Len(response.items) : ConversionRaises(response.items[k])

\* parse_x_response, its returned list (when it does not raise)
parse_x_response(response) ==
    IF response.error THEN << >>
    ELSE LET cites == _extract_citation_urls(response.citations)
             raw == response.items
             clean_items ==
                 SelectIdx([k \in 1..Len(raw) |-> CleanItem(raw[k], k)],
                           {k \in 1..Len(raw) : ReachesConversion(raw[k])})
         IN  IF cites # << >> THEN _fix_urls_from_citations(clean_items, cites)
             ELSE clean_items

\* normalize.normalize_x_items + score.score_x_items: the canonical scored
\* record; the score starts at the provider-assigned relevance
ScoreXItem(it) ==
    [id |-> it.id, url |-> it.url, author_handle |-> it.author_handle,
     text |-> it.text, engagement |-> it.engagement,
     why_relevant |-> it.why_relevant,
     score |-> it.relevance, category |-> ""]

\* a stable sort, descending by Key
SortDescBy(seq, Key(_)) ==
    LET Pos(k) == 1 + Cardinality({j \in 1..Len(seq) :
                        \/ Key(seq[j]) > Key(seq[k])
                        \/ (Key(seq[j]) = Key(seq[k]) /\ j < k)})
    IN  [p \in 1..Len(seq) |-> seq[CHOOSE k \in 1..Len(seq) : Pos(k) = p]]

\* score.sort_items
sort_items(seq) == LET Key(it) == it.score IN SortDescBy(seq, Key)

\* dedupe.dedupe_x / dedupe.dedupe_reddit: of the items with one URL the
\* first encountered is kept
DedupeByUrl(seq) ==
    SelectIdx(seq, {k \in 1..Len(seq) :
                       \A j \in 1..(k - 1) : seq[j].url # seq[k].url})

\* a vault dedup that lets a seen item through when the quality filters
\* gave it a category other than "general"
VaultDedupSparesCategorized(res, s_urls, s_titles) ==
    LET Spared(item) == item.category \notin {"", "general"}
        KeepR(item) == \/ Spared(item)
                       \/ item.url \notin s_urls /\ ~title_is_seen(item.title, s_titles)
        KeepX(item) == Spared(item) \/ item.url \notin s_urls
    IN  [res EXCEPT !.reddit_items = SelectSeq(@, KeepR),
                    !.x_items = SelectSeq(@, KeepX)]

\* Vault dedup: remove items already seen
VaultDedup(res, s_urls, s_titles) ==
    LET KeepR(item) == item.url \notin s_urls /\ ~title_is_seen(item.title, s_titles)
        KeepX(item) == item.url \notin s_urls
    IN  [res EXCEPT !.reddit_items = SelectSeq(@, KeepR),
                    !.x_items = SelectSeq(@, KeepX)]

\* run_topic_scan, the Reddit scan: the items as score.score_reddit_items
\* returned them, sorted, then deduplicated
ScanReddit(reddit_scored) == DedupeByUrl(sort_items(reddit_scored))

\* run_topic_scan, the X scan up to its dedupe step: parse (with URL
\* repair), normalize, score, sort
DedupeInputX(x_response) ==
    sort_items(MapSeq(parse_x_response(x_response), ScoreXItem))

\* the X scan without its dedupe step
ScanXNoDedupe(x_response) == DedupeInputX(x_response)

\* run_topic_scan, the X scan: deduped = dedupe.dedupe_x(sorted_items)
ScanX(x_response) == DedupeByUrl(DedupeInputX(x_response))


\* the X try block of run_topic_scan raises: in search_x (inp.x_raises) or
\* in parse_x_response
XScanRaises(inp) == inp.x_raises \/ ParseRaises(inp.x_response)

\* run_topic_scan up to the quality filters; inp.x_response is what
\* search_x returned and inp.reddit_scored the Reddit items as scored;
\* inp.x_raises and inp.reddit_raises when a statement of the source's try
\* block raised instead (the list is assigned by the block's last
\* statement, so a raise anywhere in the block leaves it empty)
ScanSources(topic, inp) ==
    [topic |-> topic,
     reddit_items |-> IF inp.reddit_raises THEN << >>
                      ELSE ScanReddit(inp.reddit_scored),
     x_items |-> IF XScanRaises(inp) THEN << >> ELSE ScanX(inp.x_response),
     errors |-> (IF inp.reddit_raises THEN <<"Reddit/" \o topic.slug>> ELSE << >>)
                \o (IF XScanRaises(inp) THEN <<"X/" \o topic.slug>> ELSE << >>)]

\* run_topic_scan: the sources, the quality filters, then the vault dedup
run_topic_scan(topic, cfg, inp, s_urls, s_titles) ==
    VaultDedup(apply_quality_filters(ScanSources(topic, inp), cfg), s_urls, s_titles)

\* the URLs of the items a result keeps
KeptUrls(res) ==
    {res.reddit_items[k].url : k \in 1..Len(res.reddit_items)}
    \cup {res.x_items[k].url : k \in 1..Len(res.x_items)}

\* a topic loop that forgets the URLs it kept
AddKeptNone(seen, res) == seen

\* main: "Add found URLs to seen set to dedup across topics"
AddKept(seen, res) == seen \cup KeptUrls(res)

\* a topic loop that also remembers the titles of the Reddit items it kept
SeenTitlesAfterTopicKept(s_titles, res) ==
    s_titles \cup {Lower(Strip(res.reddit_items[k].title)) : k \in 1..Len(res.reddit_items)}

\* main: the loop body adds URLs only; seen_titles is passed to every
\* run_topic_scan call as load_seen_titles returned it
SeenTitlesAfterTopic(s_titles, res) == s_titles

-----------------------------------------------------------------------------
(* The daily note: _oneline, _build_reading_list, render_daily_note        *)

\* Stand-ins (one ASCII character each) for the non-ASCII characters of the
\* note template; none of them is special to the extraction patterns.
\* The template's backquote is written "$" and its emoji before "MOC" is
\* left out.
EM_DASH == "~"
ARROW == "^"
FLASK == "%"
BOOK == "&"

\* the concatenation of p[lo..hi], by halves
RECURSIVE JoinRange(_, _, _)
JoinRange(p, lo, hi) ==
    IF lo > hi THEN ""
    ELSE IF lo = hi THEN p[lo]
    ELSE LET m == (lo + hi) \div 2
         IN  JoinRange(p, lo, m) \o JoinRange(p, m + 1, hi)

\* sep.join(seq)
Join(sep, seq) ==
    JoinRange([k \in 1..Len(seq) |-> IF k = 1 THEN seq[k] ELSE sep \o seq[k]],
              1, Len(seq))

\* str(n) for n >= 0
RECURSIVE ToStr(_)
ToStr(n) ==
    IF n < 10 THEN Char(Digits, n + 1)
    ELSE ToStr(n \div 10) \o Char(Digits, (n % 10) + 1)

\* _oneline: line breaks and tabs become a space, "[" and "]" go, "|"
\* becomes a dash, runs of spaces collapse, the ends are stripped, and the
\* text is cut to max_len characters plus "..."
_oneline(text, max_len) ==
    LET Sub(c) == IF c \in {"\n", "\r", "\t"} THEN " "
                  ELSE IF c \in {"[", "]"} THEN ""
                  ELSE IF c = "|" THEN EM_DASH ELSE c
        t1 == JoinRange([k \in 1..Len(text) |-> Sub(Char(text, k))], 1, Len(text))
        t2 == JoinRange([k \in 1..Len(t1) |->
                            IF k > 1 /\ Char(t1, k) = " " /\ Char(t1, k - 1) = " "
                            THEN "" ELSE Char(t1, k)], 1, Len(t1))
        t == Strip(t2)
    IN  IF Len(t) > max_len THEN SubSeq(t, 1, max_len) \o "..." ELSE t

\* config.get("reading_list_max", 15)
READING_LIST_MAX == 15

\* the reading-list entries of one topic result, Reddit first
ReadingEntries(tr) ==
    [k \in 1..Len(tr.reddit_items) |->
        LET item == tr.reddit_items[k]
        IN  [title |-> item.title, url |-> item.url,
             summary |-> IF item.why_relevant # "" THEN item.why_relevant
                         ELSE "r/" \o item.subreddit,
             topic_slug |-> tr.topic.slug,
             score |-> item.score * tr.topic.weight10]]
    \o
    [k \in 1..Len(tr.x_items) |->
        LET item == tr.x_items[k]
        IN  [title |-> _oneline(item.text, 80), url |-> item.url,
             summary |-> IF item.why_relevant # "" THEN item.why_relevant
                         ELSE "@" \o item.author_handle,
             topic_slug |-> tr.topic.slug,
             score |-> item.score * tr.topic.weight10]]

\* the concatenation of F(seq[1]), ..., F(seq[n])
FlatMap(seq, F(_)) ==
    LET G[i \in 0..Len(seq)] == IF i = 0 THEN << >> ELSE G[i - 1] \o F(seq[i])
    IN  G[Len(seq)]

\* _build_reading_list with the cut made before the sort
_build_reading_list_cut_first(results, cfg) ==
    LET Key(e) == e.score
        all_items == FlatMap(results, ReadingEntries)
    IN  SortDescBy(SubSeq(all_items, 1, Min(Len(all_items), cfg.reading_list_max)), Key)

\* _build_reading_list: all items of all topics, sorted by weighted score
\* (descending, stable), cut to reading_list_max
_build_reading_list(results, cfg) ==
    LET Key(e) == e.score
        sorted == SortDescBy(FlatMap(results, ReadingEntries), Key)
    IN  SubSeq(sorted, 1, Min(Len(sorted), cfg.reading_list_max))

\* getattr(item, '_category', 'general')
CategoryOf(item) == IF item.category = "" THEN "general" ELSE item.category

\* item.engagement.likes if item.engagement and item.engagement.likes else 0
LikesOf(item) ==
    IF item.engagement # None /\ item.engagement[1].likes # None
    THEN item.engagement[1].likes[1] ELSE 0

\* render_daily_note: the (item, topic, source) triples of one category
Categorized(results, cat, with_reddit) ==
    LET OfTopic(tr) ==
            LET IsCat(item) == CategoryOf(item) = cat
                TagX(item) == [item |-> item, topic |-> tr.topic, source |-> "x"]
                TagR(item) == [item |-> item, topic |-> tr.topic, source |-> "reddit"]
            IN  MapSeq(SelectSeq(tr.x_items, IsCat), TagX)
                \o (IF with_reddit
                    THEN MapSeq(SelectSeq(tr.reddit_items, IsCat), TagR)
                    ELSE << >>)
    IN  FlatMap(results, OfTopic)

MonthNames == <<"Jan", "Feb", "Mar", "Apr", "May", "Jun",
                "Jul", "Aug", "Sep", "Oct", "Nov", "Dec">>

\* the number a run of decimal digits denotes
RECURSIVE ToNat(_)
ToNat(s) ==
    IF s = "" THEN 0
    ELSE 10 * ToNat(SubSeq(s, 1, Len(s) - 1))
         + (CHOOSE d \in 0..9 : Char(Digits, d + 1) = Char(s, Len(s)))

\* _format_date: "2026-02-23" -> "Feb 23, 2026"
_format_date(date_str) ==
    MonthNames[ToNat(SubSeq(date_str, 6, 7))] \o " " \o SubSeq(date_str, 9, 10)
    \o ", " \o SubSeq(date_str, 1, 4)

Head8(seq) == SubSeq(seq, 1, Min(Len(seq), 8))
Head10(seq) == SubSeq(seq, 1, Min(Len(seq), 10))

\* render_daily_note, the Lab Pulse section
LabPulseLines(lab_pulse_items) ==
    IF lab_pulse_items = << >> THEN << >>
    ELSE LET Row(e) == "| @" \o e.item.author_handle \o " | " \o _oneline(e.item.text, 80)
                       \o " | " \o ToStr(LikesOf(e.item))
                       \o " | [" \o ARROW \o "](" \o e.item.url \o ") |"
         IN  <<"## Lab Pulse " \o FLASK, "",
               "| Author | Post | Likes | Link |",
               "|--------|------|-------|------|">>
             \o MapSeq(Head10(lab_pulse_items), Row) \o <<"">>

\* render_daily_note, the Deep Dives section
DeepDiveLines(deep_dives) ==
    IF deep_dives = << >> THEN << >>
    ELSE LET Row(e) ==
                 IF e.source = "x"
                 THEN "- [ ] [" \o _oneline(e.item.text, 100) \o "](" \o e.item.url
                      \o ") " \o EM_DASH \o " @" \o e.item.author_handle
                      \o " #" \o e.topic.slug
                 ELSE "- [ ] [" \o e.item.title \o "](" \o e.item.url
                      \o ") " \o EM_DASH \o " r/" \o e.item.subreddit
                      \o " #" \o e.topic.slug
         IN  <<"## Deep Dives " \o BOOK, "">> \o MapSeq(Head8(deep_dives), Row) \o <<"">>

\* render_daily_note, the Reading List section
ReadingListLines(reading_list) ==
    IF reading_list = << >> THEN << >>
    ELSE LET Row(e) == "- [ ] [" \o e.title \o "](" \o e.url \o ") " \o EM_DASH \o " "
                       \o e.summary \o " #" \o e.topic_slug
         IN  <<"## Reading List", "">> \o MapSeq(reading_list, Row) \o <<"">>

\* render_daily_note, the section of one topic
TopicLines(tr) ==
    LET r8 == Head8(tr.reddit_items)
        x8 == Head8(tr.x_items)
        RowR(k) == "| " \o ToStr(k) \o " | " \o _oneline(r8[k].title, 60) \o " | r/"
                   \o r8[k].subreddit \o " | " \o ToStr(r8[k].score)
                   \o " | [" \o ARROW \o "](" \o r8[k].url \o ") |"
        RowX(k) == "| " \o ToStr(k) \o " | " \o _oneline(x8[k].text, 60) \o " | @"
                   \o x8[k].author_handle \o " | " \o ToStr(LikesOf(x8[k]))
                   \o " | [" \o ARROW \o "](" \o x8[k].url \o ") |"
    IN  <<"---", "", "## " \o tr.topic.display_name, "">>
        \o (IF tr.reddit_items # << >>
            THEN <<"### Reddit", "",
                   "| # | Title | Subreddit | Score | Link |",
                   "|---|-------|-----------|-------|------|">>
                 \o [k \in 1..Len(r8) |-> RowR(k)] \o <<"">>
            ELSE << >>)
        \o (IF tr.x_items # << >>
            THEN <<"### X", "",
                   "| # | Post | Author | Likes | Link |",
                   "|---|------|--------|-------|------|">>
                 \o [k \in 1..Len(x8) |-> RowX(k)] \o <<"">>
            ELSE << >>)
        \o (IF tr.reddit_items = << >> /\ tr.x_items = << >>
            THEN <<"*No new results for this topic today.*", "">>
            ELSE << >>)

\* render_daily_note for a run with an empty synthesis, no vault
\* connections, no must-follow results and no feedback; the token tracker's
\* sections (numbers only) are left out
render_daily_note(date_str, results, cfg) ==
    LET Slug(tr) == tr.topic.slug
        HashSlug(tr) == "#" \o tr.topic.slug
        CountR(tr) == <<Len(tr.reddit_items)>>
        CountX(tr) == <<Len(tr.x_items)>>
        Sum(seq) == LET G[i \in 0..Len(seq)] == IF i = 0 THEN 0 ELSE G[i - 1] + seq[i]
                    IN  G[Len(seq)]
        deep_dives == Categorized(results, "deep-dive", TRUE)
        lab_pulse_items == Categorized(results, "lab-pulse", FALSE)
        fm_lines ==
            <<"---",
              "date: " \o date_str,
              "type: daily-research",
              "topics: [" \o Join(", ", MapSeq(results, Slug)) \o "]",
              "tags: [" \o Join(", ", MapSeq(results, HashSlug)) \o "]",
              "status: unread",
              "up: \"[[MOC - AI Agent Development]]\"",
              "reddit_items: " \o ToStr(Sum(FlatMap(results, CountR))),
              "x_items: " \o ToStr(Sum(FlatMap(results, CountX))),
              "must_follow_tweets: 0",
              "deep_dives: " \o ToStr(Len(deep_dives)),
              "lab_pulse: " \o ToStr(Len(lab_pulse_items)),
              "---", "">>
        footer ==
            <<"---", "",
              "## Promote to Library", "",
              "> Add $#keep$ to any reading list item above to promote it to",
              "> $" \o cfg.library_folder \o "/$ on the next run.", "",
              "## Rate Results", "",
              "> Tag any item with $#good$ or $#bad$ to give feedback.",
              "> Next run picks it up and logs it " \o EM_DASH
                  \o " helps tune future results.", "">>
    IN  Join("\n",
             fm_lines
             \o <<"# Daily Research " \o EM_DASH \o " " \o _format_date(date_str), "">>
             \o LabPulseLines(lab_pulse_items)
             \o DeepDiveLines(deep_dives)
             \o ReadingListLines(_build_reading_list(results, cfg))
             \o FlatMap(results, TopicLines)
             \o footer)

\* the URLs of the items render_daily_note writes out
RenderedUrls(results, cfg) ==
    LET Url(e) == <<e.item.url>>
        EntryUrl(e) == <<e.url>>
        TableUrls(tr) == [k \in 1..Len(Head8(tr.reddit_items)) |-> tr.reddit_items[k].url]
                         \o [k \in 1..Len(Head8(tr.x_items)) |-> tr.x_items[k].url]
    IN  Range(FlatMap(Head10(Categorized(results, "lab-pulse", FALSE)), Url))
        \cup Range(FlatMap(Head8(Categorized(results, "deep-dive", TRUE)), Url))
        \cup Range(FlatMap(_build_reading_list(results, cfg), EntryUrl))
        \cup Range(FlatMap(results, TableUrls))

-----------------------------------------------------------------------------
(* The vault: load_seen_dedup, write_daily_note                            *)

\* the vault is a set of notes [path, content]
VaultExists(v, path) == \E f \in v : f.path = path
VaultRead(v, path) == (CHOOSE f \in v : f.path = path).content

\* ob.files(folder=folder, ext="md"): the .md notes directly in the folder
VaultFiles(v, folder) ==
    {f.path : f \in {g \in v :
        /\ StartsWith(g.path, folder \o "/")
        /\ ~Contains(SubSeq(g.path, Len(folder) + 2, Len(g.path)), "/")}}

\* range(2024, current_year + 2)
FIRST_SCAN_YEAR == 2024

Pad2(n) == IF n < 10 THEN "0" \o ToStr(n) ELSE ToStr(n)

\* _scan_folder_recursive: the folder, its YYYY/MM sub-folders and its YYYY
\* sub-folders
_scan_folder_recursive(v, folder, current_year) ==
    VaultFiles(v, folder)
    \cup UNION {VaultFiles(v, folder \o "/" \o ToStr(y) \o "/" \o Pad2(m)) :
                   y \in FIRST_SCAN_YEAR..(current_year + 1), m \in 1..12}
    \cup UNION {VaultFiles(v, folder \o "/" \o ToStr(y)) :
                   y \in FIRST_SCAN_YEAR..(current_year + 1)}

\* load_seen_dedup: <<seen_urls, seen_titles>>
load_seen_dedup(v, cfg, current_year) ==
    LET all_files == _scan_folder_recursive(v, cfg.dailies_folder, current_year)
                     \cup VaultFiles(v, cfg.library_folder)
    IN  <<UNION {extract_urls_from_text(VaultRead(v, p)) : p \in all_files},
          UNION {extract_titles_from_text(VaultRead(v, p)) : p \in all_files}>>

\* _daily_path
_daily_path(dailies_folder, date_str) ==
    dailies_folder \o "/" \o SubSeq(date_str, 1, 4) \o "/" \o SubSeq(date_str, 6, 7)
    \o "/" \o date_str \o ".md"

\* write_daily_note writing to the date's path whatever is there
write_daily_note_overwrite(v, cfg, date_str, content) ==
    LET path == _daily_path(cfg.dailies_folder, date_str)
    IN  {f \in v : f.path # path} \cup {[path |-> path, content |-> content]}

\* write_daily_note: never overwrites; the first free name among path,
\* base-2.md, base-3.md, ...
write_daily_note(v, cfg, date_str, content) ==
    LET path == _daily_path(cfg.dailies_folder, date_str)
        base == SubSeq(path, 1, Len(path) - 3)
        Name(i) == base \o "-" \o ToStr(i) \o ".md"
        free == CHOOSE i \in 2..(Cardinality(v) + 2) :
                    /\ ~VaultExists(v, Name(i))
                    /\ \A j \in 2..(i - 1) : VaultExists(v, Name(j))
    IN  v \cup {[path |-> IF VaultExists(v, path) THEN Name(free) ELSE path,
                 content |-> content]}

\* the folders _scan_folder_recursive lists, in its order: the folder,
\* then for each year its twelve month folders and the year folder
RecursiveFolders(folder, current_year) ==
    [i \in 1..(1 + 13 * (current_year + 2 - FIRST_SCAN_YEAR)) |->
        IF i = 1 THEN folder
        ELSE LET y == FIRST_SCAN_YEAR + ((i - 2) \div 13)
                 m == ((i - 2) % 13) + 1
             IN  IF m <= 12 THEN folder \o "/" \o ToStr(y) \o "/" \o Pad2(m)
                 ELSE folder \o "/" \o ToStr(y)]

\* _scan_folder_files without the cache lookup
_scan_folder_files_uncached(st, v, ok, folder) ==
    LET files == IF ok THEN VaultFiles(v, folder) ELSE {}
        n == IF folder \in DOMAIN st.calls THEN st.calls[folder] ELSE 0
    IN  [cache |-> (folder :> files) @@ st.cache,
         calls |-> (folder :> n + 1) @@ st.calls,
         files |-> files]

\* _scan_folder_files; st holds _folder_cache and the count of ob.files
\* calls, ok is result.ok of the call if one is made; files is the
\* returned list
_scan_folder_files(st, v, ok, folder) ==
    IF folder \in DOMAIN st.cache
    THEN [st EXCEPT !.files = st.cache[folder]]
    ELSE LET files == IF ok THEN VaultFiles(v, folder) ELSE {}
             n == IF folder \in DOMAIN st.calls THEN st.calls[folder] ELSE 0
         IN  [cache |-> (folder :> files) @@ st.cache,
              calls |-> (folder :> n + 1) @@ st.calls,
              files |-> files]

\* _scan_folder_files over folders[lo..hi] in turn, the returned lists
\* added to st.files (the range is split in halves)
RECURSIVE ScanRange(_, _, _, _, _, _)
ScanRange(st, v, ok, folders, lo, hi) ==
    IF lo > hi THEN st
    ELSE IF lo = hi
    THEN LET r == _scan_folder_files(st, v, ok, folders[lo])
         IN  [r EXCEPT !.files = st.files \cup r.files]
    ELSE LET mid == (lo + hi) \div 2
         IN  CHOOSE r \in {ScanRange(left, v, ok, folders, mid + 1, hi) :
                              left \in {ScanRange(st, v, ok, folders, lo, mid)}} : TRUE

ScanFolders(st, v, ok, folders) ==
    ScanRange([st EXCEPT !.files = {}], v, ok, folders, 1, Len(folders))

\* load_seen_dedup within a process: the files come from the (cached)
\* listings, the texts from the vault
load_seen_dedup_cached(st, v, ok, cfg, current_year) ==
    LET r == ScanFolders(st, v, ok,
                         RecursiveFolders(cfg.dailies_folder, current_year)
                         \o <<cfg.library_folder>>)
        all_files == {q \in r.files : VaultExists(v, q)}
    IN  [st |-> r,
         seen_urls |-> UNION {extract_urls_from_text(VaultRead(v, q)) : q \in all_files},
         seen_titles |-> UNION {extract_titles_from_text(VaultRead(v, q)) : q \in all_files}]

-----------------------------------------------------------------------------
(* Configs and item pools                                                  *)

\* s repeated n times, by halves
RECURSIVE Repeat(_, _)
Repeat(s, n) ==
    IF n = 0 THEN ""
    ELSE IF n = 1 THEN s
    ELSE Repeat(s, n \div 2) \o Repeat(s, n - (n \div 2))

\* DEFAULT_QUALITY_FILTERS, its lists cut to a few entries and its patterns
\* to literal phrases
QF_DEFAULT ==
    [min_engagement |-> [reddit_score |-> 50, x_likes |-> 100],
     long_form_bonus |-> 15,
     long_form_min_chars |-> 400,
     article_domains |-> <<"medium.com", "arxiv.org">>,
     priority_accounts |-> [x |-> <<"AnthropicAI", "karpathy">>,
                            reddit_subreddits |-> <<"LocalLLaMA">>],
     priority_account_bonus |-> 20,
     spam_detection |->
        [enabled |-> TRUE,
         claim_link_mismatch_patterns |->
            <<[claim_regex |-> "official anthropic",
               link_must_contain |-> <<"anthropic.com", "github.com/anthropics">>]>>,
         low_effort_patterns |-> <<"follow me for more", "link in bio">>],
     lab_accounts |-> [anthropic |-> <<"AnthropicAI", "DarioAmodei">>,
                       openai |-> <<"OpenAI">>]]

\* a config whose floors and bonuses are 0 and whose spam detection is off
QF_PERMISSIVE ==
    [min_engagement |-> [reddit_score |-> 0, x_likes |-> 0],
     long_form_bonus |-> 0,
     long_form_min_chars |-> 400,
     article_domains |-> << >>,
     priority_accounts |-> [x |-> << >>, reddit_subreddits |-> << >>],
     priority_account_bonus |-> 0,
     spam_detection |->
        [enabled |-> FALSE,
         claim_link_mismatch_patterns |-> << >>,
         low_effort_patterns |-> << >>],
     lab_accounts |-> [anthropic |-> << >>]]

\* a config with bonuses as large as the cap and a low long-form threshold
QF_AGGRESSIVE ==
    [min_engagement |-> [reddit_score |-> 11, x_likes |-> 6],
     long_form_bonus |-> 100,
     long_form_min_chars |-> 5,
     article_domains |-> <<"reddit.com">>,
     priority_accounts |-> [x |-> <<"alice">>, reddit_subreddits |-> <<"other">>],
     priority_account_bonus |-> 100,
     spam_detection |->
        [enabled |-> TRUE,
         claim_link_mismatch_patterns |->
            <<[claim_regex |-> "official anthropic", link_must_contain |-> << >>],
              [claim_regex |-> "", link_must_contain |-> <<"anthropic.com">>]>>,
         low_effort_patterns |-> << >>],
     lab_accounts |-> [anthropic |-> << >>]]

\* the config dict: _parse_pipeline_md's defaults and the filters
MakeConfig(qf) ==
    [quality_filters |-> qf,
     dailies_folder |-> "Research/Dailies",
     library_folder |-> "Research/Library",
     reading_list_max |-> READING_LIST_MAX]

\* topics_mod.Topic; the weight (a float such as 1.2) is kept in tenths
TopicPool ==
    <<[slug |-> "agents", display_name |-> "Agent Development", weight10 |-> 12],
      [slug |-> "skills", display_name |-> "Agent Skills & Tools", weight10 |-> 10],
      [slug |-> "evals", display_name |-> "Evals", weight10 |-> 8],
      [slug |-> "models", display_name |-> "Model Releases", weight10 |-> 10]>>
NoTopic == TopicPool[1]

CFG_EMPTY == MakeConfig(None)
CFG_DEFAULT == MakeConfig(Some(QF_DEFAULT))
\* a pipeline.md whose Settings section has "- reading_list_max: 2"
CFG_SHORT_LIST == [CFG_EMPTY EXCEPT !.reading_list_max = 2]
Configs == {CFG_EMPTY, CFG_DEFAULT,
            MakeConfig(Some(QF_PERMISSIVE)), MakeConfig(Some(QF_AGGRESSIVE))}

EmptyResult == [topic |-> NoTopic, x_items |-> << >>, reddit_items |-> << >>, errors |-> << >>]


ShortText == "new agent sdk"
LongText == Repeat("x", 400)
ClaimText == "The Official Anthropic guide to agents"
BaitText == "Follow me for more"
LongTitle == Repeat("y", 101)

XUrlA == "https://x.com/alice/status/9"
RedditUrl == "https://www.reddit.com/r/LocalLLaMA/comments/1"
ArticleUrl == "https://medium.com/anthropic.com/p1"

\* scored X items (schema.XItem) without their id
QFXPool ==
    [url : {XUrlA},
     author_handle : {"AnthropicAI", "karpathy", "DarioAmodei", "alice"},
     text : {ShortText, LongText, ClaimText, BaitText},
     engagement : {Some([likes |-> Some(5)]), Some([likes |-> Some(100)])},
     score : {0, 90},
     category : {""},
     why_relevant : {""}]
    \cup
    [url : {XUrlA}, author_handle : {"alice"}, text : {ShortText},
     engagement : {None, Some([likes |-> None])},
     score : {0}, category : {""}, why_relevant : {""}]

\* scored Reddit items (schema.RedditItem) without their id
QFRedditPool ==
    [url : {RedditUrl, ArticleUrl},
     title : {"new agent sdk released", LongTitle, "Official Anthropic guide"},
     subreddit : {"LocalLLaMA", "other"},
     engagement : {Some([score |-> Some(10)]), Some([score |-> Some(50)])},
     score : {0, 90},
     category : {""},
     why_relevant : {""}]
    \cup
    [url : {RedditUrl}, title : {"new agent sdk released"}, subreddit : {"other"},
     engagement : {None, Some([score |-> None])},
     score : {0}, category : {""}, why_relevant : {""}]

\* the items of a batch numbered in arrival order
WithIds(seq) == [k \in 1..Len(seq) |-> [id |-> k] @@ seq[k]]

-----------------------------------------------------------------------------
(* Inputs of the title specification                                       *)

MaxTitleWords == 4

\* words a candidate title is built from (one of them capitalised, one
\* that no seen title contains)
TitleVocab == {"agents", "tools", "memory", "evals", "Agents", "zeta"}
\* words of the titles already in the vault, in note order
SeenVocab == <<"agents", "tools", "memory", "evals", "rag">>

\* " ".join(ws)
JoinWords(ws) ==
    LET F[i \in 0..Len(ws)] ==
            IF i = 0 THEN ""
            ELSE IF i = 1 THEN ws[1] ELSE F[i - 1] \o " " \o ws[i]
    IN  F[Len(ws)]

\* the scenario of the fuzzy title dedup
ScenarioSeenTitle == "deep dive into agent tool use patterns"
ScenarioTitleHyphen == "Deep Dive Into Agent Tool-Use Patterns Today"
ScenarioTitleSpaces == "Deep Dive Into Agent Tool Use Patterns Today"

CandidateTitles ==
    {JoinWords(ws) : ws \in UNION {[1..n -> TitleVocab] : n \in 0..MaxTitleWords}}
    \cup {"agents  tools\tmemory ", ScenarioTitleHyphen, ScenarioTitleSpaces}

SubSeqOf(seq, S) ==
    LET F[i \in 0..Len(seq)] ==
            IF i = 0 THEN << >>
            ELSE IF i \in S THEN Append(F[i - 1], seq[i]) ELSE F[i - 1]
    IN  F[Len(seq)]

SeenTitlePool ==
    {t \in {JoinWords(SubSeqOf(SeenVocab, S)) : S \in SUBSET (1..Len(SeenVocab))} :
        Len(t) > MIN_TITLE_LEN}
    \cup {ScenarioSeenTitle}

-----------------------------------------------------------------------------
(* Provider responses and vault contents the pipeline is run on            *)

XUrlB == "https://x.com/bob/status/3"
XUrlWrong == "https://x.com/Bob/status/1"
XUrlAnon == "https://x.com/i/status/5"
XUrlLab == "https://x.com/AnthropicAI/status/4"
ParenUrl == "https://en.wikipedia.org/wiki/Agent_(AI)"
RedditUrl2 == "https://www.reddit.com/r/LocalLLaMA/comments/2"
RedditUrl4 == "https://www.reddit.com/r/LocalLLaMA/comments/4"

\* an item of the model's JSON answer (relevance in percent)
\* form tells what is wrong with the entry: "not_dict" (the entry is not
\* a JSON object), "bad_likes" (engagement.likes is a text such as "1.2k"),
\* "bad_relevance" (relevance is a text such as "high"), "ok" otherwise
RawX(url, author, text, likes, relevance) ==
    [url |-> url, author_handle |-> author, text |-> text,
     engagement |-> Some([likes |-> likes]),
     why_relevant |-> "", relevance |-> relevance, form |-> "ok"]

RawA == RawX(XUrlA, "@alice", "agents memory notes", Some(120), 90)
RawA2 == RawX(XUrlA, "alice", " a second look | at [agents] ", Some(0), 95)
RawWrong == RawX(XUrlWrong, "alice", "tool use thread", None, 70)
RawB == RawX(XUrlB, "bob", "evals for agents", Some(150), 70)
RawNoUrl == RawX("", "bob", "no link here", Some(300), 60)
RawParen == RawX(ParenUrl, "carol", "what an agent is", Some(200), 80)
RawLab == RawX(XUrlLab, "AnthropicAI", "new model card", Some(3), 120)
RawNotDict == [RawX("", "", "", None, 0) EXCEPT !.form = "not_dict"]
RawBadRelevance == [RawParen EXCEPT !.form = "bad_relevance"]
RawBadLikes == [RawLab EXCEPT !.form = "bad_likes"]

\* a search_x answer
XResponse(error, citations, raw_items) ==
    [error |-> error, citations |-> citations, items |-> raw_items]

\* a Reddit item as score.score_reddit_items returns it
RedditItem(id, url, item_title, eng_score, item_score) ==
    [id |-> id, url |-> url, title |-> item_title, subreddit |-> "LocalLLaMA",
     engagement |-> Some([score |-> Some(eng_score)]),
     score |-> item_score, category |-> "", why_relevant |-> ""]

RedditHyphen == RedditItem(1, RedditUrl, ScenarioTitleHyphen, 60, 60)
RedditSpaces == RedditItem(2, RedditUrl2, ScenarioTitleSpaces, 70, 80)
RedditSameUrl == RedditItem(3, RedditUrl, "agent memory benchmarks compared", 90, 90)
RedditRepost == RedditItem(4, RedditUrl4, ScenarioTitleSpaces, 75, 70)

\* what the providers return to one topic scan
ScanInput(x_raises, x_response, reddit_scored) ==
    [x_raises |-> x_raises, x_response |-> x_response,
     reddit_raises |-> FALSE, reddit_scored |-> reddit_scored]

\* the same when the Reddit scan raised
RedditRaises(x_raises, x_response) ==
    [ScanInput(x_raises, x_response, << >>) EXCEPT !.reddit_raises = TRUE]

NoScanInput == ScanInput(FALSE, XResponse(TRUE, << >>, << >>), << >>)

\* the days the pipeline is run on
RunDates == {"2026-02-26", "2026-03-01"}

\* a library note written before the first run
LibraryNote ==
    [path |-> "Research/Library/agent-patterns.md",
     content |-> "## Deep Dive Into Agent Tool Use Patterns\n\n"
                 \o "- [Agents thread](" \o XUrlA \o ")\n"]

\* a library note whose title-like strings are 10, 9 and 11 characters long
ShortTitlesNote ==
    [path |-> "Research/Library/short-titles.md",
     content |-> "### Agent Eval\n\n"
                 \o "- [agent run](https://example.com/run)\n"
                 \o "- [ ] [Agent Evals](https://example.com/evals)\n"]

-----------------------------------------------------------------------------
(* Specification of title_is_seen as called with a one-title seen set      *)

\* a process that has listed no folder yet
NoListing == [folder |-> "", files |-> {}]
CacheIdle == folder_cache = << >> /\ list_calls = << >> /\ listing = NoListing
\* no podcast run yet, an empty manifest file
NoPodArgs == [run |-> 0, feed |-> << >>, fetch_ok |-> TRUE, max_episodes |-> 0,
              dry_run |-> FALSE]
NoWrite == [ep |-> "", outcome |-> ""]
PodIdle ==
    /\ manifest = << >> /\ manifest_disk = << >> /\ pod_args = NoPodArgs
    /\ new_eps = << >> /\ notes = << >> /\ last_write = NoWrite
    /\ write_count = << >>
NoPromo == [run |-> 0, dry_run |-> TRUE]

PromoIdle == daily = "" /\ library = << >> /\ promoted = << >> /\ promo = NoPromo

AuxIdle == CacheIdle /\ PodIdle /\ PromoIdle

\* no pipeline run is in progress
RunIdle ==
    /\ AuxIdle
    /\ vault = {} /\ run_no = 0 /\ today = ""
    /\ seen_urls = {} /\ seen_urls0 = {}
    /\ all_topics = << >> /\ topic_results = << >> /\ total_errors = << >>
    /\ scan_input = NoScanInput /\ written_urls = {}

InitTitle ==
    /\ pc = "title_call"
    /\ title \in CandidateTitles
    /\ seen_titles \in {{}} \cup {{b} : b \in SeenTitlePool}
    /\ seen_result = "none"
    /\ items = << >> /\ citation_urls = << >> /\ fixed = << >>
    /\ config = CFG_EMPTY /\ result = EmptyResult /\ prev_result = EmptyResult
    /\ qf_calls = 0
    /\ RunIdle

CallTitleIsSeen ==
    /\ pc = "title_call"
    /\ seen_result' = title_is_seen(title, seen_titles)
    /\ pc' = "title_done"
    /\ UNCHANGED <<auxVars, title, seen_titles, citeVars, qfVars, runVars>>

NextTitle == CallTitleIsSeen

SpecTitle == InitTitle /\ [][NextTitle]_vars

-----------------------------------------------------------------------------
(* Specification of one _fix_urls_from_citations pass                      *)

MaxFixItems == 2
MaxCitations == 2

\* citation URLs as _extract_citation_urls returns them: distinct, each
\* containing "/status/"
CitationPool ==
    {"https://x.com/alice/status/9", "https://x.com/alice/status/7",
     "https://x.com/bob/status/3", "https://x.com/i/status/5",
     "https://x.com/i/status/6"}

\* URLs the model may claim: real ones, a wrong status id, a non-X link
ClaimedUrls ==
    {"https://x.com/alice/status/9", "https://x.com/alice/status/7",
     "https://x.com/i/status/5", "https://x.com/alice/status/5",
     "https://x.com/Bob/status/1", "https://example.com/p/1"}

ClaimedAuthors == {"alice", "BOB", ""}

SeqsUpTo(S, n) == UNION {[1..k -> S] : k \in 0..n}

IsInjective(seq) == \A i, j \in 1..Len(seq) : seq[i] = seq[j] => i = j

FixItemPool == [url : ClaimedUrls, author_handle : ClaimedAuthors]

InitCite ==
    /\ pc = "fix_call"
    /\ items \in {WithIds(its) : its \in SeqsUpTo(FixItemPool, MaxFixItems)}
    /\ citation_urls \in {c \in SeqsUpTo(CitationPool, MaxCitations) : IsInjective(c)}
    /\ fixed = << >>
    /\ title = "" /\ seen_titles = {} /\ seen_result = "none"
    /\ config = CFG_EMPTY /\ result = EmptyResult /\ prev_result = EmptyResult
    /\ qf_calls = 0
    /\ RunIdle

CallFixUrls ==
    /\ pc = "fix_call"
    /\ fixed' = _fix_urls_from_citations(items, citation_urls)
    /\ pc' = "fix_done"
    /\ UNCHANGED <<auxVars, items, citation_urls, titleVars, qfVars, runVars>>

NextCite == CallFixUrls

SpecCite == InitCite /\ [][NextCite]_vars

-----------------------------------------------------------------------------
(* Specification of apply_quality_filters applied to one result, twice     *)

MaxQFItems == 1
MaxQFCalls == 2

InitQF ==
    /\ pc = "qf"
    /\ config \in Configs
    /\ \E xs \in SeqsUpTo(QFXPool, MaxQFItems), rs \in SeqsUpTo(QFRedditPool, MaxQFItems) :
          /\ Len(xs) + Len(rs) <= MaxQFItems
          /\ result = [topic |-> NoTopic, x_items |-> WithIds(xs),
                       reddit_items |-> WithIds(rs), errors |-> << >>]
    /\ prev_result = EmptyResult
    /\ qf_calls = 0
    /\ title = "" /\ seen_titles = {} /\ seen_result = "none"
    /\ items = << >> /\ citation_urls = << >> /\ fixed = << >>
    /\ RunIdle

ApplyQualityFilters ==
    /\ pc = "qf"
    /\ qf_calls < MaxQFCalls
    /\ result' = apply_quality_filters(result, config)
    /\ prev_result' = result
    /\ qf_calls' = qf_calls + 1
    /\ UNCHANGED <<auxVars, pc, config, titleVars, citeVars, runVars>>

NextQF == ApplyQualityFilters

SpecQF == InitQF /\ [][NextQF]_vars

-----------------------------------------------------------------------------
(* Specification of one run_topic_scan call                                *)

MaxScanItems == 2

RawXPool == {RawA, RawA2, RawWrong, RawB, RawNoUrl, RawParen, RawLab}
RedditScanPool == {RedditHyphen, RedditSpaces, RedditSameUrl}
ScanCitations == {<< >>, <<XUrlA>>, <<XUrlAnon, XUrlA, "https://example.com/cited">>}

ScanInputs ==
    {ScanInput(FALSE, XResponse(FALSE, c, xs), rs) :
        c \in ScanCitations,
        xs \in SeqsUpTo(RawXPool, MaxScanItems),
        rs \in {r \in SeqsUpTo(RedditScanPool, MaxScanItems) : IsInjective(r)}}
    \cup {ScanInput(TRUE, XResponse(FALSE, << >>, << >>), <<RedditHyphen>>),
          ScanInput(FALSE, XResponse(TRUE, << >>, <<RawA>>), << >>)}

InitScan ==
    /\ pc = "scan_call"
    /\ AuxIdle
    /\ config \in {CFG_EMPTY, CFG_DEFAULT}
    /\ scan_input \in {i \in ScanInputs :
                          Len(i.x_response.items) + Len(i.reddit_scored) <= MaxScanItems}
    /\ seen_urls \in {{}, {XUrlA}, {XUrlLab}}
    /\ seen_urls0 = seen_urls
    /\ seen_titles \in {{}, {ScenarioSeenTitle}}
    /\ result = EmptyResult /\ prev_result = EmptyResult /\ qf_calls = 0
    /\ title = "" /\ seen_result = "none"
    /\ items = << >> /\ citation_urls = << >> /\ fixed = << >>
    /\ vault = {} /\ run_no = 0 /\ today = ""
    /\ all_topics = <<NoTopic>> /\ topic_results = << >> /\ total_errors = << >>
    /\ written_urls = {}

CallRunTopicScan ==
    /\ pc = "scan_call"
    /\ result' = run_topic_scan(all_topics[1], config, scan_input, seen_urls, seen_titles)
    /\ pc' = "scan_done"
    /\ UNCHANGED <<auxVars, config, prev_result, qf_calls, titleVars, citeVars, runVars>>

NextScan == CallRunTopicScan

SpecScan == InitScan /\ [][NextScan]_vars

-----------------------------------------------------------------------------
(* main: the steps of a pipeline run                                       *)

\* main up to the topic loop: the date of the run and the vault's seen
\* sets; at most max_runs runs are followed
StartRun(max_runs) ==
    /\ pc = "idle"
    /\ run_no < max_runs
    /\ \E d \in RunDates :
          LET seen == load_seen_dedup(vault, config, ToNat(SubSeq(d, 1, 4)))
          IN  /\ today' = d
              /\ seen_urls' = seen[1]
              /\ seen_urls0' = seen[1]
              /\ seen_titles' = seen[2]
    /\ run_no' = run_no + 1
    /\ topic_results' = << >>
    /\ total_errors' = << >>
    /\ pc' = "scan"
    /\ UNCHANGED <<auxVars, vault, all_topics, scan_input, written_urls, config, result,
                   prev_result, qf_calls, title, seen_result, citeVars>>

\* a topic loop in which a raising scan ends the run
ScanTopicUncaught(inputs) ==
    /\ pc = "scan"
    /\ Len(topic_results) < Len(all_topics)
    /\ \E inp \in inputs :
          LET res == run_topic_scan(all_topics[Len(topic_results) + 1], config, inp,
                                    seen_urls, seen_titles)
              raised == XScanRaises(inp) \/ inp.reddit_raises
          IN  /\ scan_input' = inp
              /\ result' = IF raised THEN result ELSE res
              /\ topic_results' = IF raised THEN topic_results
                                  ELSE Append(topic_results, res)
              /\ total_errors' = total_errors
              /\ seen_urls' = IF raised THEN seen_urls ELSE AddKept(seen_urls, res)
              /\ seen_titles' = IF raised THEN seen_titles
                                ELSE SeenTitlesAfterTopic(seen_titles, res)
              /\ pc' = IF raised THEN "idle" ELSE pc
    /\ UNCHANGED <<auxVars, vault, run_no, today, seen_urls0, all_topics, written_urls,
                   config, prev_result, qf_calls, title, seen_result, citeVars>>

\* one iteration of "for topic in all_topics", the providers answering
\* with one of inputs
ScanTopic(inputs) ==
    /\ pc = "scan"
    /\ Len(topic_results) < Len(all_topics)
    /\ \E inp \in inputs :
          LET res == run_topic_scan(all_topics[Len(topic_results) + 1], config, inp,
                                    seen_urls, seen_titles)
          IN  /\ scan_input' = inp
              /\ result' = res
              /\ topic_results' = Append(topic_results, res)
              /\ total_errors' = total_errors \o res.errors
              /\ seen_urls' = AddKept(seen_urls, res)
              /\ seen_titles' = SeenTitlesAfterTopic(seen_titles, res)
    /\ UNCHANGED <<auxVars, pc, vault, run_no, today, seen_urls0, all_topics, written_urls,
                   config, prev_result, qf_calls, title, seen_result, citeVars>>

\* main after the loop: render the note and write it to the vault
WriteNote ==
    /\ pc = "scan"
    /\ Len(topic_results) = Len(all_topics)
    /\ vault' = write_daily_note(vault, config, today,
                                 render_daily_note(today, topic_results, config))
    /\ written_urls' = written_urls \cup RenderedUrls(topic_results, config)
    /\ pc' = "idle"
    /\ UNCHANGED <<auxVars, run_no, today, seen_urls, seen_urls0, all_topics, topic_results,
                   total_errors, scan_input, qfVars, titleVars, citeVars>>

\* main after the loop with --dry-run: the note is printed, not written
DryRun ==
    /\ pc = "scan"
    /\ Len(topic_results) = Len(all_topics)
    /\ pc' = "idle"
    /\ UNCHANGED <<auxVars, vault, written_urls, run_no, today, seen_urls, seen_urls0,
                   all_topics, topic_results, total_errors, scan_input, qfVars,
                   titleVars, citeVars>>

\* the state main starts from, given the vault, the config and the topics
InitMain ==
    /\ pc = "idle"
    /\ AuxIdle
    /\ run_no = 0 /\ today = ""
    /\ seen_urls = {} /\ seen_urls0 = {} /\ seen_titles = {}
    /\ topic_results = << >> /\ total_errors = << >>
    /\ scan_input = NoScanInput /\ written_urls = {}
    /\ result = EmptyResult /\ prev_result = EmptyResult /\ qf_calls = 0
    /\ title = "" /\ seen_result = "none"
    /\ items = << >> /\ citation_urls = << >> /\ fixed = << >>

-----------------------------------------------------------------------------
(* Specification of one run of main over several topics                    *)

MaxTopics == 2

\* what the providers may return to a topic scan of the run
RunScanInputs ==
    {ScanInput(TRUE, XResponse(FALSE, << >>, << >>), << >>),
     ScanInput(FALSE, XResponse(TRUE, << >>, << >>), << >>),
     ScanInput(FALSE, XResponse(FALSE, << >>, <<RawA>>), <<RedditHyphen>>),
     ScanInput(FALSE, XResponse(FALSE, << >>, <<RawB, RawA2>>), << >>),
     ScanInput(FALSE, XResponse(FALSE, << >>, <<RawParen>>), <<RedditSpaces>>),
     ScanInput(FALSE, XResponse(FALSE, <<XUrlLab>>, <<RawLab>>), << >>),
     ScanInput(FALSE, XResponse(FALSE, << >>, <<RawA2, RawParen>>), <<RedditSameUrl>>),
     ScanInput(FALSE, XResponse(FALSE, <<XUrlB>>, <<RawWrong, RawB>>), << >>),
     ScanInput(TRUE, XResponse(FALSE, << >>, << >>), <<RedditSpaces>>),
     RedditRaises(FALSE, XResponse(FALSE, << >>, <<RawB>>)),
     RedditRaises(TRUE, XResponse(FALSE, << >>, << >>)),
     ScanInput(FALSE, XResponse(FALSE, << >>, <<RawNotDict, RawA, RawNoUrl>>), << >>),
     ScanInput(FALSE, XResponse(FALSE, << >>, <<RawB, RawBadRelevance>>), << >>),
     ScanInput(FALSE, XResponse(FALSE, << >>, <<RawBadLikes, RawA>>), <<RedditSpaces>>),
     ScanInput(FALSE, XResponse(TRUE, << >>, << >>), <<RedditRepost>>)}

InitRun ==
    /\ InitMain
    /\ \/ config \in {CFG_EMPTY, CFG_DEFAULT, CFG_SHORT_LIST} /\ vault = {}
       \/ config \in {CFG_EMPTY, CFG_DEFAULT} /\ vault = {LibraryNote}
       \/ config = CFG_DEFAULT /\ vault = {ShortTitlesNote}
    /\ all_topics \in {SubSeq(TopicPool, 1, n) : n \in 1..Min(MaxTopics, Len(TopicPool))}

NextRun == StartRun(1) \/ ScanTopic(RunScanInputs) \/ WriteNote \/ DryRun

SpecRun == InitRun /\ [][NextRun]_vars

-----------------------------------------------------------------------------
(* Specification of successive runs of main over one vault                 *)

MaxRuns == 2

\* what the providers may return to the topic scan of a run
VaultScanInputs ==
    {ScanInput(TRUE, XResponse(FALSE, << >>, << >>), << >>),
     ScanInput(FALSE, XResponse(FALSE, << >>, <<RawA>>), <<RedditHyphen>>),
     ScanInput(FALSE, XResponse(FALSE, << >>, <<RawParen>>), << >>)}

InitVault ==
    /\ InitMain
    /\ config \in {CFG_EMPTY, CFG_DEFAULT}
    /\ vault \in {{}, {LibraryNote}, {LibraryNote, ShortTitlesNote}}
    /\ all_topics = SubSeq(TopicPool, 1, 1)

NextVault == StartRun(MaxRuns) \/ ScanTopic(VaultScanInputs) \/ WriteNote \/ DryRun

SpecVault == InitVault /\ [][NextVault]_vars

-----------------------------------------------------------------------------
(* Specification of the vault functions called in any order by one process *)

MaxNotes == 3

\* the folders list_md_files is called with
ListedFolders ==
    {"Research/Library", "Research/Dailies", "Research/Dailies/2026/02",
     "Research/Inbox"}

\* note contents written by write_daily_note
NoteContents ==
    {"# Daily Research\n", "## Agent memory in depth\n\n- [Agents thread](" \o XUrlB \o ")\n"}

CacheState == [cache |-> folder_cache, calls |-> list_calls, files |-> {}]

InitLib ==
    /\ pc = "lib"
    /\ AuxIdle
    /\ run_no = 0 /\ today = "2026-02-26"
    /\ seen_urls = {} /\ seen_urls0 = {} /\ seen_titles = {}
    /\ all_topics = << >> /\ topic_results = << >> /\ total_errors = << >>
    /\ scan_input = NoScanInput /\ written_urls = {}
    /\ result = EmptyResult /\ prev_result = EmptyResult /\ qf_calls = 0
    /\ title = "" /\ seen_result = "none"
    /\ items = << >> /\ citation_urls = << >> /\ fixed = << >>
    /\ config = CFG_DEFAULT
    /\ vault \in {{}, {LibraryNote}}

\* load_seen_dedup(config), load_seen_urls(config) or
\* load_seen_titles(config)
CallLoadSeen ==
    /\ pc = "lib"
    /\ \E ok \in BOOLEAN :
          \E r \in {load_seen_dedup_cached(CacheState, vault, ok, config,
                                           ToNat(SubSeq(today, 1, 4)))} :
             /\ folder_cache' = r.st.cache
             /\ list_calls' = r.st.calls
             /\ \E fn \in {"load_seen_dedup", "load_seen_urls", "load_seen_titles"} :
                   /\ seen_urls' = IF fn = "load_seen_titles" THEN seen_urls
                                   ELSE r.seen_urls
                   /\ seen_titles' = IF fn = "load_seen_urls" THEN seen_titles
                                     ELSE r.seen_titles
    /\ UNCHANGED <<pc, listing, vault, run_no, today, seen_urls0, all_topics,
                   topic_results, total_errors, scan_input, written_urls, qfVars,
                   title, seen_result, citeVars, podVars, promoVars>>

\* list_md_files(folder)
CallListMdFiles ==
    /\ pc = "lib"
    /\ \E ok \in BOOLEAN, folder \in ListedFolders :
          LET r == _scan_folder_files(CacheState, vault, ok, folder)
          IN  /\ folder_cache' = r.cache
              /\ list_calls' = r.calls
              /\ listing' = [folder |-> folder, files |-> r.files]
    /\ UNCHANGED <<pc, runVars, qfVars, titleVars, citeVars, podVars, promoVars>>

\* write_daily_note(config, today, content); at most max_notes notes are
\* followed
CallWriteDailyNote(max_notes) ==
    /\ pc = "lib"
    /\ Cardinality(vault) < max_notes
    /\ \E content \in NoteContents :
          vault' = write_daily_note(vault, config, today, content)
    /\ UNCHANGED <<pc, cacheVars, podVars, promoVars, run_no, today, seen_urls, seen_urls0, all_topics,
                   topic_results, total_errors, scan_input, written_urls, qfVars,
                   titleVars, citeVars>>

NextLib == CallLoadSeen \/ CallListMdFiles \/ CallWriteDailyNote(MaxNotes)

SpecLib == InitLib /\ [][NextLib]_vars

-----------------------------------------------------------------------------
(* podcast-to-obsidian: the manifest and the pipeline steps of one show     *)

\* Manifest.is_known taken for Manifest.is_processed
is_processed_any_status(m, episode_id) == episode_id \in DOMAIN m

\* Manifest.is_processed
is_processed(m, episode_id) ==
    episode_id \in DOMAIN m /\ m[episode_id].status = "completed"

\* Manifest.mark_episode: the episode's entry is replaced
mark_episode(m, episode_id, note_path, status) ==
    (episode_id :> [status |-> status, note_path |-> note_path]) @@ m

\* Manifest.get_new_episodes
get_new_episodes(m, candidate_ids) ==
    LET New(eid) == eid \notin DOMAIN m \/ m[eid].status = "failed"
    IN  SelectSeq(candidate_ids, New)

\* rss.parse_feed: feed.entries[:max_episodes]
parse_feed(entries, max_episodes) ==
    SubSeq(entries, 1, Min(Len(entries), max_episodes))

\* step_detect_episodes for the show: the unprocessed episodes of the first
\* 2 * max_episodes feed entries, cut to max_episodes; none when the fetch
\* raises
step_detect_episodes(m, entries, fetch_ok, max_ep) ==
    IF ~fetch_ok THEN << >>
    ELSE LET NotProcessed(eid) == ~is_processed(m, eid)
             new == SelectSeq(parse_feed(entries, max_ep * 2), NotProcessed)
         IN  SubSeq(new, 1, Min(Len(new), max_ep))

\* the vault path of an episode's note
NotePath(ep) == "Podcasts/show/" \o ep \o ".md"

\* step_write_to_vault's loop body marking the episode before the write
step_write_to_vault_mark_first(m, ep, outcome) ==
    mark_episode(m, ep, NotePath(ep), "completed")

\* step_write_to_vault, the body of its loop for one note: outcome is "ok"
\* (result.ok), "not_ok" or "raises" (ob.create raised)
step_write_to_vault(m, ep, outcome) ==
    IF outcome = "ok" THEN mark_episode(m, ep, NotePath(ep), "completed")
    ELSE mark_episode(m, ep, "", "failed")

\* cmd_retry_failed: the failed episodes are deleted from the manifest
cmd_retry_failed(m) ==
    [eid \in {e \in DOMAIN m : m[e].status # "failed"} |-> m[eid]]

-----------------------------------------------------------------------------
(* Specification of successive podcast pipeline runs over one manifest      *)

MaxPodRuns == 3

\* the feed entries (episode ids, newest first) a run may be given
PodFeeds == {<<"e1">>, <<"e2", "e1">>, <<"e3", "e2", "e1">>}

\* config max_episodes / --max-episodes
PodMaxEpisodes == {1, 2}

\* the sub-sequences of seq
SubSeqsOf(seq) ==
    {SelectIdx(seq, K) : K \in SUBSET (1..Len(seq))}

InitPod ==
    /\ pc = "pod_idle"
    /\ AuxIdle
    /\ run_no = 0 /\ today = ""
    /\ seen_urls = {} /\ seen_urls0 = {} /\ seen_titles = {}
    /\ all_topics = << >> /\ topic_results = << >> /\ total_errors = << >>
    /\ scan_input = NoScanInput /\ written_urls = {}
    /\ result = EmptyResult /\ prev_result = EmptyResult /\ qf_calls = 0
    /\ title = "" /\ seen_result = "none"
    /\ items = << >> /\ citation_urls = << >> /\ fixed = << >>
    /\ config = CFG_DEFAULT
    /\ vault = {}

\* run_pipeline up to the processing loop: the manifest is loaded and
\* step_detect_episodes selects the new episodes; at most max_runs runs
\* are followed
PodDetect(max_runs) ==
    /\ pc = "pod_idle"
    /\ pod_args.run < max_runs
    /\ \E entries \in PodFeeds, fetch_ok \in BOOLEAN, max_ep \in PodMaxEpisodes,
          dry \in BOOLEAN :
          LET new == step_detect_episodes(manifest_disk, entries, fetch_ok, max_ep)
          IN  /\ pod_args' = [run |-> pod_args.run + 1, feed |-> entries,
                              fetch_ok |-> fetch_ok, max_episodes |-> max_ep,
                              dry_run |-> dry]
              /\ manifest' = manifest_disk
              /\ new_eps' = new
              /\ pc' = IF new = << >> THEN "pod_idle" ELSE "pod_process"
    /\ notes' = << >>
    /\ last_write' = NoWrite
    /\ UNCHANGED <<manifest_disk, write_count, cacheVars, promoVars, runVars, qfVars,
                   titleVars, citeVars>>

\* step_download, step_transcribe, step_generate_notes: each may lose
\* episodes; the notes of the others go to step_write_to_vault
PodProcess ==
    /\ pc = "pod_process"
    /\ \E kept \in SubSeqsOf(new_eps) :
          /\ notes' = kept
          /\ pc' = IF kept = << >> THEN "pod_idle" ELSE "pod_write"
    /\ UNCHANGED <<manifest, manifest_disk, pod_args, new_eps, last_write,
                   write_count, cacheVars, promoVars, runVars, qfVars, titleVars, citeVars>>

\* step_write_to_vault with dry_run, or when Obsidian() raises: nothing is
\* written or recorded
PodNoWrite ==
    /\ pc = "pod_write"
    /\ last_write = NoWrite
    /\ notes' = << >>
    /\ pc' = "pod_idle"
    /\ UNCHANGED <<manifest, manifest_disk, pod_args, new_eps, last_write,
                   write_count, cacheVars, promoVars, runVars, qfVars, titleVars, citeVars>>

\* step_write_to_vault, one iteration of its loop: the write, mark_episode
\* and manifest.save()
PodWriteNote ==
    /\ pc = "pod_write"
    /\ ~pod_args.dry_run
    /\ notes # << >>
    /\ \E outcome \in {"ok", "not_ok", "raises"} :
          LET ep == Head(notes)
              m == step_write_to_vault(manifest, ep, outcome)
              n == IF ep \in DOMAIN write_count THEN write_count[ep] ELSE 0
          IN  /\ manifest' = m
              /\ manifest_disk' = m
              /\ last_write' = [ep |-> ep, outcome |-> outcome]
              /\ write_count' = IF outcome = "ok" THEN (ep :> n + 1) @@ write_count
                                ELSE write_count
    /\ notes' = Tail(notes)
    /\ pc' = IF Tail(notes) = << >> THEN "pod_idle" ELSE "pod_write"
    /\ UNCHANGED <<pod_args, new_eps, cacheVars, promoVars, runVars, qfVars, titleVars,
                   citeVars>>

\* the retry-failed subcommand
PodRetryFailed ==
    /\ pc = "pod_idle"
    /\ \E e \in DOMAIN manifest_disk : manifest_disk[e].status = "failed"
    /\ manifest' = cmd_retry_failed(manifest_disk)
    /\ manifest_disk' = cmd_retry_failed(manifest_disk)
    /\ UNCHANGED <<pc, pod_args, new_eps, notes, last_write, write_count,
                   cacheVars, promoVars, runVars, qfVars, titleVars, citeVars>>

NextPod ==
    PodDetect(MaxPodRuns) \/ PodProcess \/ PodNoWrite \/ PodWriteNote
    \/ PodRetryFailed

SpecPod == InitPod /\ [][NextPod]_vars

-----------------------------------------------------------------------------
(* promote_items: promotion of #keep lines of a daily note to the library   *)

KEEP_TAG == "#keep"
KEPT_TAG == "#kept"

\* text.splitlines(), for texts whose line terminator is "\n"
RECURSIVE SplitLinesFrom(_, _)
SplitLinesFrom(text, i) ==
    IF i > Len(text) THEN << >>
    ELSE LET e == RunEnd(text, i, {"\n"})
         IN  <<SubSeq(text, i, e)>> \o SplitLinesFrom(text, e + 2)

splitlines(text) == SplitLinesFrom(text, 1)

\* s.find(sub) + 1: the index of the first occurrence of sub in s, 0 if none
FirstIndex(s, sub) ==
    LET M == {i \in 1..(Len(s) - Len(sub) + 1) : SubSeq(s, i, i + Len(sub) - 1) = sub}
    IN  IF M = {} THEN 0 ELSE SetMin(M)

\* s.replace(old, new, 1)
ReplaceFirst(s, old, new) ==
    LET i == FirstIndex(s, old)
    IN  IF i = 0 THEN s
        ELSE SubSeq(s, 1, i - 1) \o new \o SubSeq(s, i + Len(old), Len(s))

\* s.replace(old, new)
RECURSIVE ReplaceAll(_, _, _)
ReplaceAll(s, old, new) ==
    LET i == FirstIndex(s, old)
    IN  IF i = 0 THEN s
        ELSE SubSeq(s, 1, i - 1) \o new
             \o ReplaceAll(SubSeq(s, i + Len(old), Len(s)), old, new)

\* the match of r'\[([^\]]+)\]\((https?://[^\)]+)\)' at i: Some([title, url])
\* of groups 1 and 2, None if there is none
KeepLinkAt(line, i) ==
    IF Char(line, i) # "[" THEN None
    ELSE LET e == RunEnd(line, i + 1, {"]"})
             u == e + 3
             scheme == IF StartsAt(line, u, "https://") THEN 8
                       ELSE IF StartsAt(line, u, "http://") THEN 7 ELSE 0
             ue == RunEnd(line, u + scheme, {")"})
         IN  IF /\ e >= i + 1
                /\ StartsAt(line, e + 1, "](")
                /\ scheme > 0
                /\ ue >= u + scheme
                /\ ue < Len(line)
             THEN Some([title |-> SubSeq(line, i + 1, e), url |-> SubSeq(line, u, ue)])
             ELSE None

\* re.search of the link pattern in line
KeepLinkSearch(line) ==
    LET M == {i \in 1..Len(line) : KeepLinkAt(line, i) # None}
    IN  IF M = {} THEN None ELSE KeepLinkAt(line, SetMin(M))

TopicTags == {"agents", "skills", "models", "mcp", "rag"}

\* re.findall(r'#(agents|skills|models|mcp|rag)', line)[0], else "general"
TopicSlugOf(line) ==
    LET M == {i \in 1..Len(line) :
                 Char(line, i) = "#" /\ \E t \in TopicTags : StartsAt(line, i + 1, t)}
    IN  IF M = {} THEN "general"
        ELSE CHOOSE t \in TopicTags : StartsAt(line, SetMin(M) + 1, t)

\* the line is tagged #keep, not yet #kept, and holds a link
IsKeepLine(line) ==
    /\ Contains(line, KEEP_TAG)
    /\ ~Contains(line, KEPT_TAG)
    /\ KeepLinkSearch(line) # None

\* scan_for_keeps for one daily note: the items of its #keep lines, in line
\* order (the summary and the date found are carried by the code's item
\* and left out here)
scan_for_keeps(content) ==
    LET lines == splitlines(content)
        item == [i \in 1..Len(lines) |->
                    [title |-> IF IsKeepLine(lines[i])
                               THEN KeepLinkSearch(lines[i])[1].title ELSE "",
                     url |-> IF IsKeepLine(lines[i])
                             THEN KeepLinkSearch(lines[i])[1].url ELSE "",
                     topic_slug |-> TopicSlugOf(lines[i]),
                     line_number |-> i - 1,
                     raw_line |-> lines[i]]]
    IN  SelectIdx(item, {i \in 1..Len(lines) : IsKeepLine(lines[i])})

\* _append_to_library: the entry of item is appended to the library file
\* of its topic, which is created when missing
_append_to_library(lib, item) ==
    LET entry == [title |-> item.title, url |-> item.url]
        old == IF item.topic_slug \in DOMAIN lib THEN lib[item.topic_slug] ELSE << >>
    IN  (item.topic_slug :> Append(old, entry)) @@ lib

\* the loop body of promote_items over the items of one daily note
RECURSIVE PromoteLoop(_, _, _)
PromoteLoop(st, its, k) ==
    IF k > Len(its) THEN st
    ELSE PromoteLoop(
            [content |-> ReplaceFirst(st.content, its[k].raw_line,
                                      ReplaceAll(its[k].raw_line, KEEP_TAG, KEPT_TAG)),
             library |-> _append_to_library(st.library, its[k])],
            its, k + 1)

\* promote_items for one daily note: [content, library, promoted]
promote_items(content, lib, dry_run) ==
    LET its == scan_for_keeps(content)
        st == PromoteLoop([content |-> content, library |-> lib], its, 1)
    IN  IF dry_run
        THEN [content |-> content, library |-> lib, promoted |-> its]
        ELSE [content |-> st.content, library |-> st.library, promoted |-> its]

MaxPromoRuns == 3

MaxDailyLines == 3

LineA == "- [ ] [A](https://a.io) #keep #agents"
LineB == "- [B](http://b.io) #keep"
LineANoted == "> - [ ] [A](https://a.io) #keep #agents (was #kept)"
LineDone == "- [C](https://c.io) #kept #rag"
LineNoLink == "to #keep"
LineKeeper == "- [D](https://d.io) #keeper #mcp"

DailyLines == {LineA, LineB, LineANoted, LineDone, LineNoLink, LineKeeper}

DailyContents ==
    {Join("\n", ls) \o "\n" : ls \in UNION {[1..n -> DailyLines] : n \in 1..MaxDailyLines}}

InitPromo ==
    /\ pc = "promote"
    /\ daily \in DailyContents
    /\ library = << >> /\ promoted = << >> /\ promo = NoPromo
    /\ CacheIdle /\ PodIdle
    /\ run_no = 0 /\ today = ""
    /\ seen_urls = {} /\ seen_urls0 = {} /\ seen_titles = {}
    /\ all_topics = << >> /\ topic_results = << >> /\ total_errors = << >>
    /\ scan_input = NoScanInput /\ written_urls = {}
    /\ result = EmptyResult /\ prev_result = EmptyResult /\ qf_calls = 0
    /\ title = "" /\ seen_result = "none"
    /\ items = << >> /\ citation_urls = << >> /\ fixed = << >>
    /\ config = CFG_DEFAULT
    /\ vault = {}

\* one promote_items call; at most max_runs calls are followed
CallPromoteItems(max_runs) ==
    /\ pc = "promote"
    /\ promo.run < max_runs
    /\ \E dry_run \in BOOLEAN :
          \E r \in {promote_items(daily, library, dry_run)} :
             /\ daily' = r.content
             /\ library' = r.library
             /\ promoted' = r.promoted
             /\ promo' = [run |-> promo.run + 1, dry_run |-> dry_run]
    /\ UNCHANGED <<pc, cacheVars, podVars, runVars, qfVars, titleVars, citeVars>>

NextPromo == CallPromoteItems(MaxPromoRuns)

SpecPromo == InitPromo /\ [][NextPromo]_vars

-----------------------------------------------------------------------------
(* Claims                                                                  *)

\* the items of the X list and of the Reddit list of a result, as one set
\* of <<source, item>> pairs
ItemsOf(res) ==
    {<<"x", res.x_items[k]>> : k \in 1..Len(res.x_items)}
    \cup {<<"reddit", res.reddit_items[k]>> : k \in 1..Len(res.reddit_items)}

\* a bonus pass of the config applies to the item (in terms of the item's
\* own fields)
BonusApplies(source, item) ==
    /\ config.quality_filters # None
    /\ LET qf == config.quality_filters[1]
       IN  \/ /\ qf.long_form_bonus > 0
              /\ IF source = "x"
                 THEN Len(item.text) >= qf.long_form_min_chars
                 ELSE \/ \E k \in 1..Len(qf.article_domains) :
                            Contains(Lower(item.url), Lower(qf.article_domains[k]))
                      \/ Len(item.title) > LONG_TITLE_CHARS
           \/ /\ qf.priority_account_bonus > 0
              /\ IF source = "x"
                 THEN \E k \in 1..Len(qf.priority_accounts.x) :
                         Lower(qf.priority_accounts.x[k]) = Lower(item.author_handle)
                 ELSE \E k \in 1..Len(qf.priority_accounts.reddit_subreddits) :
                         Lower(qf.priority_accounts.reddit_subreddits[k])
                            = Lower(item.subreddit)

C2_ExactCitationUnchanged ==
    pc = "fix_done" =>
        /\ Len(fixed) = Len(items)
        /\ \A i \in 1..Len(items) :
              items[i].url \in Range(citation_urls) => fixed[i].url = items[i].url

\* an item with a cited URL claimed for another author, processed after an
\* item whose URL was substituted
C2_Witness ==
    /\ pc = "fix_done"
    /\ Len(items) = 2
    /\ fixed[1].url # items[1].url
    /\ items[2].url \in Range(citation_urls)
    /\ Lower(XHandle(items[2].url)) # Lower(items[2].author_handle)
    /\ fixed[2].url = items[2].url

\* the item at i had its URL substituted by the pass
Substituted(i) == fixed[i].url # items[i].url

\* C3: within one pass each citation URL is used at most once - a citation
\* URL confirmed by exact match for one item, or substituted into one item,
\* is never substituted into a different item.
C3_CitationUsedAtMostOnce ==
    pc = "fix_done" =>
        \A i, j \in 1..Len(fixed) :
            (/\ i # j
             /\ Substituted(j)
             /\ (Substituted(i) \/ items[i].url \in Range(citation_urls)))
            => fixed[i].url # fixed[j].url

\* the URLs a topic scan was offered: those entering the dedupe steps
OfferedUrls(inp) ==
    {inp.reddit_scored[k].url : k \in 1..Len(inp.reddit_scored)}
    \cup (IF inp.x_raises THEN {}
          ELSE {DedupeInputX(inp.x_response)[k].url :
                   k \in 1..Len(DedupeInputX(inp.x_response))})

\* C4: over a run of the topic loop no URL is among the kept items of two
\* different topics, and no kept item has a URL that was in the vault's
\* seen-URL set at the start of the run.
C4_NoUrlKeptTwice ==
    \A i \in 1..Len(topic_results) :
        /\ KeptUrls(topic_results[i]) \cap seen_urls0 = {}
        /\ \A j \in 1..Len(topic_results) :
              i # j => KeptUrls(topic_results[i]) \cap KeptUrls(topic_results[j]) = {}

\* the second topic was offered a URL the first topic kept and a URL of the
\* vault
C4_Witness ==
    /\ pc = "scan"
    /\ Len(topic_results) = 2
    /\ OfferedUrls(scan_input) \cap KeptUrls(topic_results[1]) # {}
    /\ OfferedUrls(scan_input) \cap seen_urls0 # {}
    /\ KeptUrls(topic_results[2]) # {}

\* kept holds at most one item of each URL, and that item is the first
\* item of its URL in input
FirstOfUrlOnly(kept, input) ==
    /\ \A i, j \in 1..Len(kept) : kept[i].url = kept[j].url => i = j
    /\ \A i \in 1..Len(kept) :
          \A k \in 1..Len(input) :
              input[k].url = kept[i].url =>
                  \E j \in 1..k : input[j].id = kept[i].id /\ input[j].url = kept[i].url

C6_WrittenUrlsAreSeen ==
    pc = "scan" =>
        /\ written_urls \subseteq seen_urls0
        /\ \A k \in 1..Len(topic_results) :
              KeptUrls(topic_results[k]) \cap written_urls = {}

\* C7: for a candidate title with at least 3 distinct lower-cased words and
\* a seen set {B}, title_is_seen is true exactly when
\* |words(A) /\ words(B)| / max(|words(A)|, |words(B)|) >= 0.8; with fewer
\* than 3 distinct words it is true exactly when the lower-cased title is a
\* member of the seen set.
C7_TitleOverlapRule ==
    (pc = "title_done" /\ seen_titles # {}) =>
        LET A == WordSet(Lower(title))
        IN  IF Cardinality(A) >= 3
            THEN seen_result =
                   (\E B \in seen_titles :
                       10 * Cardinality(A \cap WordSet(B))
                         >= 8 * Max(Cardinality(A), Cardinality(WordSet(B))))
            ELSE seen_result = (Lower(title) \in seen_titles)

\* a four-word title against a five-word seen title: the ratio is exactly
\* 0.8 and the title counts as seen
C7_Witness ==
    /\ pc = "title_done"
    /\ seen_titles = {"agents tools memory evals rag"}
    /\ Cardinality(WordSet(Lower(title))) = 4
    /\ WordSet(Lower(title)) \subseteq WordSet("agents tools memory evals rag")
    /\ seen_result = TRUE

\* the Reddit items of the scan as they reach the vault dedup
FilteredReddit ==
    apply_quality_filters(
        [topic |-> all_topics[1], x_items |-> << >>, errors |-> << >>,
         reddit_items |-> ScanReddit(scan_input.reddit_scored)],
        config).reddit_items

\* C8 (as claimed): with the seen-title set {"deep dive into agent tool use
\* patterns"} an item titled "Deep Dive Into Agent Tool-Use Patterns Today"
\* is treated as seen by title_is_seen and dropped by the vault dedup.
C8_HyphenTitleDropped ==
    (/\ pc = "scan_done"
     /\ seen_titles = {ScenarioSeenTitle}
     /\ \E k \in 1..Len(scan_input.reddit_scored) :
           scan_input.reddit_scored[k].title = ScenarioTitleHyphen)
    => /\ title_is_seen(ScenarioTitleHyphen, seen_titles)
       /\ \A k \in 1..Len(result.reddit_items) :
             result.reddit_items[k].title # ScenarioTitleHyphen

\* C8 (amended): with that seen-title set the title "Deep Dive Into Agent
\* Tool-Use Patterns Today" is not treated as seen (titles are split at
\* whitespace only, 5 of 7 words overlap) and the vault dedup keeps the
\* item unless its URL is seen; the title "Deep Dive Into Agent Tool Use
\* Patterns Today" (7 of 8 words) is treated as seen and dropped.
C8_HyphenTitleKept ==
    (pc = "scan_done" /\ seen_titles = {ScenarioSeenTitle}) =>
        /\ \A k \in 1..Len(FilteredReddit) :
              (/\ FilteredReddit[k].title = ScenarioTitleHyphen
               /\ FilteredReddit[k].url \notin seen_urls)
              => \E m \in 1..Len(result.reddit_items) :
                    result.reddit_items[m] = FilteredReddit[k]
        /\ \A k \in 1..Len(result.reddit_items) :
              result.reddit_items[k].title # ScenarioTitleSpaces

\* the scan kept the hyphenated title and dropped the spaced one
C8_Witness ==
    /\ pc = "scan_done"
    /\ seen_titles = {ScenarioSeenTitle}
    /\ \E k \in 1..Len(scan_input.reddit_scored) :
          scan_input.reddit_scored[k].title = ScenarioTitleSpaces
    /\ \E k \in 1..Len(result.reddit_items) :
          result.reddit_items[k].title = ScenarioTitleHyphen

\* C9: every item apply_quality_filters returns has 0 <= score <= 100,
\* however many bonus passes applied to it and for every config.
C9_ScoreWithinBounds ==
    qf_calls >= 1 =>
        \A e \in ItemsOf(result) : 0 <= e[2].score /\ e[2].score <= 100

\* an item that both bonus passes raised and the cap stopped at 100
C9_Witness ==
    /\ qf_calls = 1
    /\ config = CFG_DEFAULT
    /\ Len(result.x_items) = 1
    /\ prev_result.x_items[1].score = 90
    /\ Len(prev_result.x_items[1].text) >= QF_DEFAULT.long_form_min_chars
    /\ prev_result.x_items[1].author_handle = "karpathy"
    /\ result.x_items[1].score = 100

\* C10: no pass of apply_quality_filters lowers a score - every item that
\* survives the call was in its input and has a score at least as high as
\* before the call.
C10_ScoreNeverLowered ==
    qf_calls >= 1 =>
        \A e \in ItemsOf(result) :
            \E d \in ItemsOf(prev_result) :
                /\ d[1] = e[1]
                /\ d[2].id = e[2].id
                /\ e[2].score >= d[2].score

\* a Reddit item that survived the call with a higher score than before
C10_Witness ==
    /\ qf_calls = 1
    /\ Len(result.reddit_items) = 1
    /\ result.reddit_items[1].score > prev_result.reddit_items[1].score

\* the state of the pass before item i is handled and after it
FixBefore(i) == FixTrace(items, citation_urls)[i - 1]
FixAfter(i) == FixTrace(items, citation_urls)[i]

\* the claimed author of item i as the pass compares it
ClaimedAuthor(i) == LStripAt(Lower(items[i].author_handle))

\* item i passes the handle-match check: its URL is not cited and the
\* handle in its URL is its non-empty claimed author, case ignored
HandleMatches(i) ==
    /\ items[i].url \notin Range(citation_urls)
    /\ XHandle(items[i].url) # ""
    /\ items[i].author_handle # ""
    /\ Lower(XHandle(items[i].url)) = Lower(items[i].author_handle)

\* item i fails the exact-citation check and the handle-match check
FailsBoth(i) ==
    /\ items[i].url \notin Range(citation_urls)
    /\ ~(/\ XHandle(items[i].url) # ""
          /\ ClaimedAuthor(i) # ""
          /\ Lower(XHandle(items[i].url)) = ClaimedAuthor(i))

\* the citation URLs used by the items before item i: confirmed by exact
\* match or substituted into an item
UsedBefore(i) ==
    {fixed[j].url : j \in {m \in 1..(i - 1) :
        Substituted(m) \/ items[m].url \in Range(citation_urls)}}

\* the citations of author a that no item before item i used, in
\* citation-list order
UnusedOf(a, i) ==
    SelectIdx(citation_urls,
              {k \in 1..Len(citation_urls) :
                  /\ a # ""
                  /\ CitationHandle(citation_urls[k]) = a
                  /\ citation_urls[k] \notin UsedBefore(i)})

\* C11: an item whose claimed URL is not in the citation list but whose
\* URL's handle equals its non-empty claimed author (case ignored) keeps
\* its URL, even when that author has unused citations, and consumes no
\* citation: the author queues and the fallback index stay as they were.
C11_HandleMatchKept ==
    pc = "fix_done" =>
        \A i \in 1..Len(items) :
            HandleMatches(i) =>
                /\ fixed[i].url = items[i].url
                /\ FixAfter(i).author_urls = FixBefore(i).author_urls
                /\ FixAfter(i).anon_idx = FixBefore(i).anon_idx

\* an item claiming Bob/status/1 for author BOB kept its URL although a
\* citation of bob was unused
C11_Witness ==
    /\ pc = "fix_done"
    /\ \E i \in 1..Len(items) :
          /\ HandleMatches(i)
          /\ items[i].author_handle = "BOB"
          /\ XHandle(items[i].url) = "Bob"
          /\ UnusedOf("bob", i) # << >>
          /\ fixed[i].url = items[i].url

\* C12: an item that fails both checks and whose claimed author has at
\* least one unused citation gets that author's oldest unused citation;
\* successive such items of one author so receive the author's citations
\* in citation-list order.
C12_OldestUnusedCitation ==
    pc = "fix_done" =>
        \A i \in 1..Len(items) :
            (FailsBoth(i) /\ UnusedOf(ClaimedAuthor(i), i) # << >>)
            => fixed[i].url = Head(UnusedOf(ClaimedAuthor(i), i))

\* the handle-less citations no item before item i received from the pool
AnonLeft(i) ==
    SubSeq(AnonUrls(citation_urls), FixBefore(i).anon_idx + 1,
           Len(AnonUrls(citation_urls)))

\* C13: the handle-less fallback pool is used only for an item whose
\* claimed author has no unused citation left; it hands out its URLs in
\* citation-list order, one per item; and an item for which the author's
\* citations and the pool are both exhausted keeps its claimed URL.
C13_FallbackPoolLastResort ==
    pc = "fix_done" =>
        \A i \in 1..Len(items) :
            /\ FixAfter(i).anon_idx # FixBefore(i).anon_idx =>
                  /\ FailsBoth(i)
                  /\ UnusedOf(ClaimedAuthor(i), i) = << >>
                  /\ FixAfter(i).anon_idx = FixBefore(i).anon_idx + 1
                  /\ fixed[i].url = Head(AnonLeft(i))
            /\ (/\ FailsBoth(i)
                /\ UnusedOf(ClaimedAuthor(i), i) = << >>
                /\ AnonLeft(i) = << >>)
               => fixed[i].url = items[i].url

\* C14: _fix_urls_from_citations returns the input items in the input
\* order and changes no field other than url; with an empty citation list
\* it changes no item at all.
C14_OnlyUrlChanges ==
    pc = "fix_done" =>
        /\ Len(fixed) = Len(items)
        /\ \A i \in 1..Len(items) :
              fixed[i] = [items[i] EXCEPT !.url = fixed[i].url]
        /\ citation_urls = << >> => fixed = items

\* a pass over two items that substituted the URL of the first and could
\* verify nothing about the second
C14_Witness ==
    /\ pc = "fix_done"
    /\ Len(items) = 2
    /\ fixed[1].url # items[1].url
    /\ fixed[1].id = 1
    /\ FailsBoth(2)
    /\ fixed[2] = items[2]

\* the handle is one of the priority X accounts or lab accounts of qf
TrustedHandle(handle, qf) ==
    \/ \E k \in 1..Len(qf.priority_accounts.x) :
          Lower(qf.priority_accounts.x[k]) = Lower(handle)
    \/ \E g \in DOMAIN qf.lab_accounts :
          \E k \in 1..Len(qf.lab_accounts[g]) :
              Lower(qf.lab_accounts[g][k]) = Lower(handle)

\* C15: an X item whose provider-reported like count is below the
\* configured x_likes floor (a reported count of 0 included) and whose
\* author is in neither the priority nor the lab account set does not
\* survive the engagement-floor pass, so it is not among the kept items of
\* the topic scan.
C15_BelowFloorDropped ==
    (/\ pc = "scan_done"
     /\ ~scan_input.x_raises
     /\ config.quality_filters # None)
    => LET qf == config.quality_filters[1]
           raw == scan_input.x_response.items
       IN  \A k \in 1..Len(raw) :
              (/\ qf.min_engagement.x_likes > 0
               /\ raw[k].engagement # None
               /\ raw[k].engagement[1].likes # None
               /\ raw[k].engagement[1].likes[1] < qf.min_engagement.x_likes
               /\ ~TrustedHandle(LStripAt(Strip(raw[k].author_handle)), qf))
              => \A m \in 1..Len(result.x_items) : result.x_items[m].id # k

\* an item is in a list, compared by id
HasId(seq, id) == \E m \in 1..Len(seq) : seq[m].id = id

\* C16: the engagement-floor pass never removes an X item whose author is a
\* priority or lab account, nor an item of either source whose engagement
\* or like/score field is unknown, whatever the floor and the engagement;
\* such an item that pass 0 kept is in the result of the call.
C16_FloorExemptions ==
    (qf_calls >= 1 /\ config.quality_filters # None) =>
        LET qf == config.quality_filters[1]
            before == SpamPass(prev_result, config)
            after == FloorPass(before, qf)
        IN  /\ \A k \in 1..Len(before.x_items) :
                  LET item == before.x_items[k]
                  IN  (\/ TrustedHandle(item.author_handle, qf)
                       \/ item.engagement = None
                       \/ item.engagement[1].likes = None)
                      => /\ \E m \in 1..Len(after.x_items) : after.x_items[m] = item
                         /\ HasId(result.x_items, item.id)
            /\ \A k \in 1..Len(before.reddit_items) :
                  LET item == before.reddit_items[k]
                  IN  (\/ item.engagement = None
                       \/ item.engagement[1].score = None)
                      => /\ \E m \in 1..Len(after.reddit_items) :
                               after.reddit_items[m] = item
                         /\ HasId(result.reddit_items, item.id)

\* a post of the priority account karpathy with 5 likes survived the floor
\* of 100 likes
C16_Witness ==
    /\ qf_calls = 1
    /\ config = CFG_DEFAULT
    /\ Len(prev_result.x_items) = 1
    /\ prev_result.x_items[1].author_handle = "karpathy"
    /\ prev_result.x_items[1].engagement = Some([likes |-> Some(5)])
    /\ Len(result.x_items) = 1

\* s.endswith(p)
EndsWith(s, p) == Len(s) >= Len(p) /\ SubSeq(s, Len(s) - Len(p) + 1, Len(s)) = p

\* the domain of a URL: the lower-cased text between "://" and the next "/"
DomainOf(url) ==
    LET l == Lower(url)
        marks == {i \in 1..Len(l) : StartsAt(l, i, "://")}
        first == IF marks = {} THEN 1 ELSE SetMin(marks) + 3
        slashes == {i \in first..Len(l) : Char(l, i) = "/"}
        last == IF slashes = {} THEN Len(l) ELSE SetMin(slashes) - 1
    IN  SubSeq(l, first, last)

\* the URL's domain is one of the allowed domains or a sub-domain of one
DomainAllowed(url, allowed) ==
    \E k \in 1..Len(allowed) :
        \/ DomainOf(url) = Lower(allowed[k])
        \/ EndsWith(DomainOf(url), "." \o Lower(allowed[k]))

\* the text of an item that spam detection inspects
SpamText(source, item) == IF source = "x" THEN item.text ELSE item.title

\* the item of the source is in the lists pass 0 returns for the input of
\* the latest call, or in the lists the call returned
SurvivesPass0(source, item) ==
    IF source = "x"
    THEN \/ HasId(SpamPass(prev_result, config).x_items, item.id)
         \/ HasId(result.x_items, item.id)
    ELSE \/ HasId(SpamPass(prev_result, config).reddit_items, item.id)
         \/ HasId(result.reddit_items, item.id)

\* C17 (as claimed): with spam detection enabled, every item whose text
\* matches a configured claim pattern and whose URL's domain is not in that
\* pattern's allowed-domain list is removed in pass 0, before the floor,
\* the bonuses and the classification.
C17_MismatchRemovedByDomain ==
    (/\ qf_calls >= 1
     /\ config.quality_filters # None
     /\ config.quality_filters[1].spam_detection.enabled)
    => LET patterns ==
               config.quality_filters[1].spam_detection.claim_link_mismatch_patterns
       IN  \A e \in ItemsOf(prev_result) :
              (\E k \in 1..Len(patterns) :
                  /\ patterns[k].claim_regex # ""
                  /\ RegexSearch(patterns[k].claim_regex, SpamText(e[1], e[2]))
                  /\ ~DomainAllowed(e[2].url, patterns[k].link_must_contain))
              => ~SurvivesPass0(e[1], e[2])

\* C17 (amended): with spam detection enabled, every item whose text
\* matches a configured claim pattern that has a non-empty
\* link_must_contain list, and whose lower-cased URL contains none of the
\* list's entries as a substring, is removed in pass 0, before the floor,
\* the bonuses and the classification.
C17_MismatchRemovedBySubstring ==
    (/\ qf_calls >= 1
     /\ config.quality_filters # None
     /\ config.quality_filters[1].spam_detection.enabled)
    => LET patterns ==
               config.quality_filters[1].spam_detection.claim_link_mismatch_patterns
       IN  \A e \in ItemsOf(prev_result) :
              (\E k \in 1..Len(patterns) :
                  /\ patterns[k].claim_regex # ""
                  /\ RegexSearch(patterns[k].claim_regex, SpamText(e[1], e[2]))
                  /\ patterns[k].link_must_contain # << >>
                  /\ \A j \in 1..Len(patterns[k].link_must_contain) :
                        ~Contains(Lower(e[2].url),
                                  Lower(patterns[k].link_must_contain[j])))
              => ~SurvivesPass0(e[1], e[2])

\* a post of a priority account that claims to be the official Anthropic
\* guide and links to x.com was removed
C17_Witness ==
    /\ qf_calls = 1
    /\ config = CFG_DEFAULT
    /\ Len(prev_result.x_items) = 1
    /\ prev_result.x_items[1].text = ClaimText
    /\ prev_result.x_items[1].author_handle = "karpathy"
    /\ result.x_items = << >>

\* the category the claim gives an item of a source under qf
ExpectedCategory(source, item, qf) ==
    IF source = "x" /\ (\E g \in DOMAIN qf.lab_accounts :
                           \E k \in 1..Len(qf.lab_accounts[g]) :
                               Lower(qf.lab_accounts[g][k]) = Lower(item.author_handle))
    THEN "lab-pulse"
    ELSE IF IF source = "x"
            THEN Len(item.text) >= qf.long_form_min_chars
            ELSE \/ \E k \in 1..Len(qf.article_domains) :
                       Contains(Lower(item.url), Lower(qf.article_domains[k]))
                 \/ Len(item.title) > LONG_TITLE_CHARS
    THEN "deep-dive"
    ELSE "general"

\* C18: with a non-empty filter config every item that survives
\* apply_quality_filters carries one category of {lab-pulse, deep-dive,
\* general}: lab-pulse when its author is in the lab account list,
\* otherwise deep-dive exactly when the long-form criteria of pass 2 hold
\* for it, otherwise general; and the classification leaves the score as
\* the bonus passes set it.
C18_OneCategoryPerItem ==
    (qf_calls >= 1 /\ config.quality_filters # None) =>
        LET qf == config.quality_filters[1]
            scored == PriorityPass(
                          LongFormPass(FloorPass(SpamPass(prev_result, config), qf), qf),
                          qf)
        IN  /\ \A e \in ItemsOf(result) :
                  /\ e[2].category \in {"lab-pulse", "deep-dive", "general"}
                  /\ e[2].category = ExpectedCategory(e[1], e[2], qf)
            /\ Len(result.x_items) = Len(scored.x_items)
            /\ Len(result.reddit_items) = Len(scored.reddit_items)
            /\ \A k \in 1..Len(result.x_items) :
                  result.x_items[k].score = scored.x_items[k].score
            /\ \A k \in 1..Len(result.reddit_items) :
                  result.reddit_items[k].score = scored.reddit_items[k].score

\* a long post of the lab account AnthropicAI was labelled lab-pulse, not
\* deep-dive
C18_Witness ==
    /\ qf_calls = 1
    /\ config = CFG_DEFAULT
    /\ Len(result.x_items) = 1
    /\ result.x_items[1].author_handle = "AnthropicAI"
    /\ Len(result.x_items[1].text) >= QF_DEFAULT.long_form_min_chars
    /\ result.x_items[1].category = "lab-pulse"

-----------------------------------------------------------------------------
(* The reading list of the daily note                                      *)

\* all reading-list entries of the run, flattened in topic order with, per
\* topic, the Reddit items before the X items
ReadingAll == FlatMap(topic_results, ReadingEntries)

\* the entries of seq whose weighted score is v, in the order of seq
WithScore(seq, v) ==
    LET Test(e) == e.score = v
    IN  SelectSeq(seq, Test)

\* C19: the reading list of a finished run holds min(n, reading_list_max)
\* entries of the n kept items, in descending order of score times topic
\* weight; entries of equal weighted score keep their arrival order, and an
\* entry is left out only if no entry after it in that order is included
C19_ReadingListTopOfStableSort ==
    (pc = "idle" /\ run_no >= 1) =>
        LET rl == _build_reading_list(topic_results, config)
            scores == {ReadingAll[i].score : i \in 1..Len(ReadingAll)}
        IN  /\ Len(rl) = Min(Len(ReadingAll), config.reading_list_max)
            /\ \A i \in 1..Len(rl) : rl[i].score \in scores
            /\ \A i \in 1..(Len(rl) - 1) : rl[i].score >= rl[i + 1].score
            /\ \A v \in scores :
                  LET a == WithScore(ReadingAll, v)
                      r == WithScore(rl, v)
                  IN  /\ Len(r) <= Len(a)
                      /\ r = SubSeq(a, 1, Len(r))
                      /\ Len(r) < Len(a) => \A i \in 1..Len(rl) : rl[i].score >= v

\* a finished run whose reading list was cut between two entries of equal
\* weighted score and is not in arrival order
C19_Witness ==
    /\ pc = "idle" /\ run_no >= 1
    /\ LET rl == _build_reading_list(topic_results, config)
           last == rl[Len(rl)].score
       IN  /\ rl # << >>
           /\ Len(rl) < Len(ReadingAll)
           /\ Len(WithScore(rl, last)) < Len(WithScore(ReadingAll, last))
           /\ rl # SubSeq(ReadingAll, 1, Len(rl))

-----------------------------------------------------------------------------
(* Failure isolation of the topic loop                                     *)

\* the scan whose providers answered inp raised in one of its try blocks
ScanRaised(inp) == XScanRaises(inp) \/ inp.reddit_raises

\* a step of the topic loop: the next topic of all_topics has been scanned
\* and its result appended, the results of the topics before it are as
\* they were, and each source that raised has left its error for that
\* topic and no item
TopicLoopStep ==
    LET k == Len(topic_results) + 1
        inp == scan_input'
        res == topic_results'[k]
    IN  /\ k <= Len(all_topics)
        /\ Len(topic_results') = k
        /\ SubSeq(topic_results', 1, k - 1) = topic_results
        /\ res.topic = all_topics[k]
        /\ total_errors' = total_errors \o res.errors
        /\ XScanRaises(inp) <=> \E e \in Range(res.errors) : e = "X/" \o res.topic.slug
        /\ inp.reddit_raises <=> \E e \in Range(res.errors) : e = "Reddit/" \o res.topic.slug
        /\ XScanRaises(inp) => res.x_items = << >>
        /\ inp.reddit_raises => res.reddit_items = << >>

\* the end of the run: every topic has been scanned, and the results and
\* the errors are handed to the note as the loop left them
RunEndStep ==
    /\ pc' = "idle"
    /\ Len(topic_results) = Len(all_topics)
    /\ topic_results' = topic_results
    /\ total_errors' = total_errors
    /\ vault' # vault =>
          vault' = write_daily_note(vault, config, today,
                                    render_daily_note(today, topic_results, config))

-----------------------------------------------------------------------------
(* Provider failures and malformed items                                   *)

\* the result of the latest topic scan of the run
LastResult == topic_results[Len(topic_results)]

\* the X source of the latest scan failed: search_x raised, or it returned
\* an error response
XSourceFailed == scan_input.x_raises \/ scan_input.x_response.error

\* C21: after a topic scan whose X request raised or whose X response is an
\* error response, the topic's X item list is empty and an error string
\* for the topic's X source is in result["errors"] and in total_errors
C21_ProviderErrorRecorded ==
    (pc = "scan" /\ topic_results # << >> /\ XSourceFailed) =>
        /\ LastResult.x_items = << >>
        /\ \E e \in Range(LastResult.errors) : e = "X/" \o LastResult.topic.slug
        /\ \E e \in Range(total_errors) : e = "X/" \o LastResult.topic.slug

\* a raw entry of the payload that is a dict with a URL and numeric
\* relevance and engagement counts
WellFormed(raw) == raw.form = "ok" /\ raw.url # ""

\* C22: when search_x returned a payload (no raise, no error response),
\* parse_x_response returns an item for every well-formed entry of the
\* payload, whatever malformed entries (not a dict, no URL, non-numeric
\* relevance or like count) stand beside it, and returns none for a
\* malformed entry
C22_MalformedItemDiscardedAlone ==
    (/\ pc = "scan" /\ topic_results # << >>
     /\ ~scan_input.x_raises /\ ~scan_input.x_response.error) =>
        LET response == scan_input.x_response
            raw == response.items
            returned == parse_x_response(response)
        IN  /\ ~ParseRaises(response)
            /\ \A k \in 1..Len(raw) :
                  WellFormed(raw[k]) <=> \E j \in 1..Len(returned) : returned[j].id = k

-----------------------------------------------------------------------------
(* The corpus index: titles, listing cache, note writing                   *)

\* the title-like strings of a note: link texts of list-item links and
\* headings of depth 2 to 4, stripped and lower-cased
TitleLike(text) ==
    {Lower(Strip(r)) : r \in LinkTitles(text) \cup HeadingTitles(text)}

\* C23: the seen-title set a run loads from the vault holds every
\* title-like string of the vault's notes that is at least 10 characters
\* long, and no shorter one
C23_TitlesOfTenOrMoreKept ==
    (pc = "scan") =>
        /\ \A f \in vault : \A t \in TitleLike(f.content) :
              Len(t) >= MIN_TITLE_LEN => t \in seen_titles
        /\ \A t \in seen_titles : Len(t) >= MIN_TITLE_LEN

NthDailyPath(cfg, date_str, k) ==
    LET path == _daily_path(cfg.dailies_folder, date_str)
    IN  IF k = 1 THEN path
        ELSE SubSeq(path, 1, Len(path) - 3) \o "-" \o ToStr(k) \o ".md"

\* the notes of the vault under the dailies folder
DailyNotes(v, cfg) == {f \in v : StartsWith(f.path, cfg.dailies_folder \o "/")}

\* C25: a write_daily_note call adds one note at a path no note had before
\* the call and leaves every earlier note, path and content, as it was;
\* the n-th call for a date writes date.md (n = 1) or date-n.md
C25_NeverOverwrites ==
    [][vault' # vault =>
          LET n == Cardinality(DailyNotes(vault, config))
              new == vault' \ vault
          IN  /\ vault \subseteq vault'
              /\ Cardinality(new) = 1
              /\ \A f \in new :
                    /\ ~VaultExists(vault, f.path)
                    /\ f.path = NthDailyPath(config, today, n + 1)
              /\ Cardinality({f.path : f \in vault'}) = Cardinality(vault')]_vars

\* three calls for one date have left date.md, date-2.md and date-3.md,
\* not all with the same content
C25_Witness ==
    /\ pc = "lib"
    /\ \A k \in 1..3 : VaultExists(vault, NthDailyPath(config, today, k))
    /\ VaultRead(vault, NthDailyPath(config, today, 1))
          # VaultRead(vault, NthDailyPath(config, today, 3))

-----------------------------------------------------------------------------
(* The podcast manifest                                                    *)

\* the episode is recorded with the status in the manifest m
HasStatus(m, e, status) == e \in DOMAIN m /\ m[e].status = status

\* the step is an iteration of step_write_to_vault's loop
WriteStep == pc = "pod_write" /\ last_write' # last_write

\* C26: after every step an episode is "completed" in the manifest, in
\* memory and on disk, only if a vault write of its note returned ok; a
\* write that returns not-ok or raises leaves the episode "failed"; a dry
\* run changes neither the manifest nor its file; and after each recorded
\* episode the file equals the manifest in memory
C26_CompletedOnlyAfterOkWrite ==
    [][/\ \A e \in DOMAIN manifest' \cup DOMAIN manifest_disk' :
             (HasStatus(manifest', e, "completed")
              \/ HasStatus(manifest_disk', e, "completed")) =>
                 (e \in DOMAIN write_count' /\ write_count'[e] >= 1)
       /\ WriteStep =>
             /\ manifest_disk' = manifest'
             /\ last_write'.outcome = "ok" =>
                   HasStatus(manifest', last_write'.ep, "completed")
             /\ last_write'.outcome \in {"not_ok", "raises"} =>
                   HasStatus(manifest', last_write'.ep, "failed")
             /\ \A e \in DOMAIN manifest : e # last_write'.ep =>
                   HasStatus(manifest', e, manifest[e].status)
       /\ (pc = "pod_write" /\ pod_args.dry_run) =>
             /\ manifest' = manifest /\ manifest_disk' = manifest_disk
             /\ write_count' = write_count]_vars

\* a run has written two notes: the first write returned ok and its episode
\* is completed, the second raised and its episode is failed, both on disk
C26_Witness ==
    /\ pc = "pod_idle"
    /\ last_write.outcome = "raises"
    /\ HasStatus(manifest_disk, last_write.ep, "failed")
    /\ \E e \in DOMAIN manifest_disk :
          /\ e \in Range(new_eps)
          /\ HasStatus(manifest_disk, e, "completed")
          /\ write_count[e] = 1

\* the step starts a run (step_detect_episodes has run)
DetectStep == pc = "pod_idle" /\ pod_args'.run = pod_args.run + 1

\* the entries step_detect_episodes reads from the feed of the new run
FeedWindow == parse_feed(pod_args'.feed, pod_args'.max_episodes * 2)

\* C27 as stated: a completed episode is never selected again nor written
\* again, and an episode recorded as failed that the next run's feed lists
\* is selected by that run
C27_CompletedSkippedFailedRetried ==
    [][/\ \A e \in DOMAIN manifest_disk :
             HasStatus(manifest_disk, e, "completed") =>
                 /\ HasStatus(manifest_disk', e, "completed")
                 /\ write_count'[e] = write_count[e]
                 /\ DetectStep => e \notin Range(new_eps')
       /\ DetectStep =>
             \A e \in DOMAIN manifest_disk :
                 (/\ HasStatus(manifest_disk, e, "failed")
                  /\ pod_args'.fetch_ok
                  /\ e \in Range(pod_args'.feed)) => e \in Range(new_eps')]_vars

\* C27 amended: a completed episode is never selected again nor written
\* again; an episode recorded as failed is selected by the next run exactly
\* when the feed is fetched, lists it among its first 2 * max_episodes
\* entries, and fewer than max_episodes entries before it are not
\* completed; the selection is what get_new_episodes returns for those
\* entries, cut to max_episodes
C27_FailedRetriedWithinLimit ==
    [][/\ \A e \in DOMAIN manifest_disk :
             HasStatus(manifest_disk, e, "completed") =>
                 /\ HasStatus(manifest_disk', e, "completed")
                 /\ write_count'[e] = write_count[e]
                 /\ DetectStep => e \notin Range(new_eps')
       /\ DetectStep =>
             /\ \A e \in DOMAIN manifest_disk :
                   HasStatus(manifest_disk, e, "failed") =>
                       (e \in Range(new_eps') <=>
                           /\ pod_args'.fetch_ok
                           /\ \E k \in 1..Len(FeedWindow) :
                                 /\ FeedWindow[k] = e
                                 /\ Cardinality({j \in 1..(k - 1) :
                                       ~HasStatus(manifest_disk, FeedWindow[j], "completed")})
                                    < pod_args'.max_episodes)
             /\ pod_args'.fetch_ok =>
                   LET new == get_new_episodes(manifest_disk, FeedWindow)
                   IN  new_eps' = SubSeq(new, 1, Min(Len(new), pod_args'.max_episodes))]_vars

\* a run has selected an episode that an earlier run recorded as failed,
\* and left out an episode of the feed that is completed
C27_Witness ==
    /\ pod_args.run >= 2
    /\ pc = "pod_process"
    /\ \E e \in Range(new_eps) : HasStatus(manifest_disk, e, "failed")
    /\ \E e \in Range(pod_args.feed) :
          HasStatus(manifest_disk, e, "completed") /\ e \notin Range(new_eps)

-----------------------------------------------------------------------------
(* Promotion                                                               *)

\* the step is a promote_items call
PromoteStep == promo'.run = promo.run + 1

\* C28: after a promote_items call that is not a dry run, every line it
\* promoted carries #kept and no #keep, and the call that follows a call
\* that was not a dry run promotes no item and leaves the library and the
\* note as they are
C28_PromotionNotRepeated ==
    [][PromoteStep =>
          /\ ~promo'.dry_run =>
                \A k \in 1..Len(promoted') :
                    LET ln == splitlines(daily')[promoted'[k].line_number + 1]
                    IN  Contains(ln, KEPT_TAG) /\ ~Contains(ln, KEEP_TAG)
          /\ (promo.run >= 1 /\ ~promo.dry_run) =>
                /\ promoted' = << >>
                /\ library' = library
                /\ daily' = daily]_vars

-----------------------------------------------------------------------------
(* The seen sets during a run                                              *)

\* the titles load_seen_titles finds in the vault of the current run
VaultTitles == load_seen_dedup(vault, config, ToNat(SubSeq(today, 1, 4)))[2]

\* C29: during a run seen_titles is what load_seen_titles found in the
\* vault at the start of the run and no step of the run changes it; a
\* topic's result is run_topic_scan against those titles and the URLs
\* accumulated so far, and after the topic the accumulator has gained
\* exactly the URLs of the items the scan kept
C29_SeenTitlesFixedDuringRun ==
    /\ [](pc = "scan" => seen_titles = VaultTitles)
    /\ [][/\ pc = "scan" => seen_titles' = seen_titles
          /\ (pc = "scan" /\ pc' = "scan") =>
                \E k \in {Len(topic_results')} :
                   \E res \in {run_topic_scan(all_topics[k], config, scan_input',
                                              seen_urls, seen_titles)} :
                      /\ k = Len(topic_results) + 1
                      /\ topic_results'[k] = res
                      /\ seen_urls' = seen_urls \cup KeptUrls(res)]_vars

\* in a run over a vault with titles, the second topic has kept a Reddit
\* item that has the title of the item the first topic kept, at another
\* URL
C29_Witness ==
    /\ pc = "scan"
    /\ seen_titles # {}
    /\ Len(topic_results) = 2
    /\ \E a \in Range(topic_results[1].reddit_items) :
          \E b \in Range(topic_results[2].reddit_items) :
             /\ a.url # b.url
             /\ title_is_seen(b.title, {Lower(Strip(a.title))})
             /\ a.url \in seen_urls /\ b.url \in seen_urls
             /\ ~title_is_seen(b.title, seen_titles)

-----------------------------------------------------------------------------
(* The order of the vault dedup and the quality filters                    *)

\* the batch of the scan as the sources returned it
ScanBatch == ScanSources(all_topics[1], scan_input)

\* C30: the result of run_topic_scan (quality filters, then vault dedup)
\* is the result of the vault dedup followed by the quality filters: the
\* same items in the same order with the same scores and categories
C30_DedupAndFiltersCommute ==
    pc = "scan_done" =>
        result = apply_quality_filters(VaultDedup(ScanBatch, seen_urls, seen_titles),
                                       config)

\* a scan in which the vault dedup and the quality filters have each
\* removed or changed an item of the batch, and an item survives both
C30_Witness ==
    /\ pc = "scan_done"
    /\ VaultDedup(ScanBatch, seen_urls, seen_titles) # ScanBatch
    /\ result # VaultDedup(ScanBatch, seen_urls, seen_titles)
    /\ result # apply_quality_filters(ScanBatch, config)
    /\ Len(result.x_items) + Len(result.reddit_items) > 0
    /\ Len(result.x_items) + Len(result.reddit_items)
       < Len(ScanBatch.x_items) + Len(ScanBatch.reddit_items)

====
